---------------------------- MODULE Spec2Model ----------------------------
(***************************************************************************)
(* Model of the dtorrent client and of the dtracker swarm.                 *)
(*                                                                         *)
(*   AtomicTorrentStatus  src/dtorrent/src/torrent_handler/status.rs       *)
(*   TorrentHandler       src/dtorrent/src/torrent_handler/handler.rs      *)
(*   BtServer             src/dtorrent/src/bt_server/server.rs             *)
(*   PeerSession          src/dtorrent/src/peer/peer_session.rs            *)
(*   Swarm                src/dtracker/src/torrent_swarm/swarm.rs          *)
(*                                                                         *)
(* Four specifications share the variables:                                *)
(*   Spec         any caller issues select_piece / piece_downloaded /      *)
(*                piece_aborted / get_piece with any argument, in any      *)
(*                order;                                                   *)
(*   SessionSpec  download sessions (outgoing) and upload sessions         *)
(*                (accepted by the server) run as threads and are the      *)
(*                only callers of the ledger; the tracker list holds       *)
(*                distinct peers;                                          *)
(*   PeerSpec     the orchestrator loop, the accept loop and the life      *)
(*                cycle of the session threads around the connected-peer   *)
(*                counters and the notification channel; the tracker list  *)
(*                may repeat peers and threads come and go without bound;  *)
(*   SwarmSpec    announces and evictions on one swarm of the tracker.     *)
(* Every ledger method takes the pieces_status mutex for its whole body,   *)
(* so a call is one atomic step; piece_downloaded is split at its block    *)
(* store write in SessionSpec, with the mutex held in between.             *)
(***************************************************************************)
EXTENDS Integers, Sequences, FiniteSets, TLC

(***************************************************************************)
(* Bounds                                                                  *)
(***************************************************************************)
\* number of pieces of the torrent (Torrent::total_pieces)
TotalPieces == 2
\* number of session threads alive at a time
NumSessions == 2
\* blocks that make up one piece
BlocksInPiece == 1
\* block payloads range over 0..MaxBlock
MaxBlock == 1
\* the ledger harness stops issuing endgame selections at this tally
MaxDownloadingTally == 4
\* width of the AtomicUsize tallies, scaled down to fit the checker's integers
UsizeBits == 16
\* notifications the channel holds per allowed peer (100 in status.rs:78,
\* scaled down)
ChannelSlotsPerPeer == 1
\* peer ids that announce to the swarm
NumSwarmPeers == 2
\* the tracker's clock runs over 0..MaxTime (hours)
MaxTime == 3
\* an announce reports 0..MaxLeft bytes left
MaxLeft == 1
\* worker threads of the tracker's pool
NumWorkers == 2
\* calls of ThreadPool::execute
MaxJobs == 3
\* bytes of a string and of a key of the codec's values
MaxStringLen == 2
\* items of a list and insertions into a dictionary
MaxItems == 2
\* bytes of an arbitrary input of decode
MaxInputLen == 4
\* piece_length of a torrent, in half blocks
MaxPieceHalfBlocks == 6
\* length of a torrent, in half blocks
MaxLengthHalfBlocks == 7
\* config.pipelining_size
MaxPipeliningSize == 2

\* info hashes that are announced to
NumInfoHashes == 2
\* threads of the tracker that call into AtomicTrackerStatus
NumTrackerThreads == 2
\* the clock of the registry runs over 0..MaxRegistryTime (hours)
MaxRegistryTime == 2
\* wanted_peers of an announce is at most this
MaxWanted == 2

\* width of u32, scaled down to fit the checker's integers
U32Bits == 8
\* pieces of the torrents whose offsets are computed
MaxOffsetPieces == 9

\* the bucket sizes of the stats updater, in days
StatsDays == {15, 16, 31}

(***************************************************************************)
(* Program constants                                                       *)
(***************************************************************************)
\* bytes of one SHA-1 entry in info.pieces
HashLen == 20
\* config.max_peers_per_torrent
max_peers_per_torrent == 2
\* bytes of a handshake frame
HandshakeLen == 68
\* Handshake::new: pstrlen
PstrLen == 19
\* hours after which the tracker drops a silent peer
PEER_HOURS_TIMEOUT == 1
\* days of snapshots the stats updater keeps
MAX_DAYS_TO_KEEP_STATS == 30
\* bytes of a block
BLOCK_SIZE == 16384

Pieces == 0 .. (TotalPieces - 1)
Sessions == 1 .. NumSessions
Workers == 1 .. NumWorkers
Blocks == 0 .. MaxBlock
\* (ip, port) pairs of remote peers
PeerAddrs == 1 .. NumSessions
SwarmPeerIds == 1 .. NumSwarmPeers
NoIndex == -1
NoSession == 0
NoPeer == 0
NoWorker == 0
InfoHashes == 1 .. NumInfoHashes
TrackerThreads == 1 .. NumTrackerThreads
NoThread == NoWorker

VARIABLES
    \* AtomicTorrentStatus
    pieces_status,        \* Mutex<HashMap<u32, PieceStatus>>
    free_pieces,          \* AtomicUsize
    downloading_pieces,   \* AtomicUsize
    finished_pieces,      \* AtomicUsize
    current_peers,        \* AtomicUsize
    all_current_peers,    \* AtomicUsize
    sessions_status,      \* Mutex<HashMap<BtPeer, SessionStatus>>: its keys
    channel,              \* notifications queued in the sync_channel
    lock_poisoned,        \* the pieces_status mutex is poisoned
    file,                 \* the block store: per piece slot, the bytes saved there
    \* TorrentHandler
    handler_pc,           \* position of the orchestrator in handle()
    \* PeerSession, one per thread
    pc,                   \* position of the thread
    current_piece,        \* the claim returned by select_piece
    piece,                \* self.piece: the blocks accumulated so far
    bitfield,             \* self.bitfield: the remote's bitfield
    choked,               \* self.status.choked
    interested,           \* self.status.interested
    error,                \* the error the running session is about to return
    disconnects,          \* calls of peer_disconnected made by the thread
    peer,                 \* self.peer: the (ip, port) of the remote
    sent_bitfield,        \* the session has sent a bitfield message
    status_bitfield,      \* self.status.bitfield: our bitfield as the session knows it
    \* Swarm
    swarm_peers,          \* HashMap<PeerId, Peer>
    seeders,              \* u32
    leechers,             \* u32
    now,                  \* Local::now(), in hours
    torrent_swarms,       \* AtomicTrackerStatus: the number of swarms
    \* StatsUpdater
    stats_history,        \* Mutex<Vec<CurrentTrackerStats>>
    duration,             \* chrono::Duration in seconds; 0 before new()
    \* ThreadPool
    pool_queue,           \* the messages in the mpsc channel
    worker_pc,            \* position of each worker thread
    receiver_lock,        \* the worker that holds the Mutex<Receiver>
    receiver_poisoned,    \* the Mutex<Receiver> is poisoned
    pool_pc,              \* serving, or where drop() is
    joined,               \* workers drop() has joined
    executed,             \* calls of execute so far
    \* Bencode
    codec,                \* the last call of the codec: argument and result
    \* PeerSession, the download of one piece in detail
    pl_pc,                \* position of the session
    pl_torrent,           \* self.torrent: length and piece_length in bytes
    pl_pipelining_size,   \* self.config.pipelining_size
    pl_finished,          \* the pieces the session has downloaded
    pl_current_piece,     \* self.current_piece
    pl_piece_len,         \* self.piece.len()
    blocks_downloaded,    \* download_with_pipeline: blocks_downloaded
    blocks_to_download,   \* download_with_pipeline: blocks_to_download
    current_blocks_downloaded,
    pl_choked,            \* self.status.choked
    pl_interested,        \* self.status.interested
    pl_requests,          \* the requests sent for the current piece
    pl_interested_sent,   \* interested messages sent on the connection
    \* AtomicTrackerStatus, with every swarm
    registry,             \* Mutex<HashMap<InfoHash, Swarm>>: the map
    swarms_lock,          \* the thread that holds the MutexGuard
    tracker_pc,           \* position of each thread of the tracker
    tracker_req,          \* the arguments of the call the thread is in
    tracker_ret,          \* the ActivePeers the last step returned
    \* observers
    haves_sent,           \* the indices of the have messages a session has sent
    last,                 \* the call made by the last step
    returned,             \* pieces select_piece returned since their last abort
    wire                  \* the messages the last step wrote to a stream

ledger == <<pieces_status, free_pieces, downloading_pieces, finished_pieces>>
peers == <<current_peers, all_current_peers, sessions_status, channel>>
session_vars == <<pc, current_piece, piece, bitfield, choked, interested,
                  error, disconnects, peer, sent_bitfield>>
swarm == <<swarm_peers, seeders, leechers, now, torrent_swarms>>
stats == <<stats_history, duration>>
\* what the client model leaves alone
pool == <<pool_queue, worker_pc, receiver_lock, receiver_poisoned, pool_pc,
          joined, executed>>
pipeline == <<pl_pc, pl_torrent, pl_pipelining_size, pl_finished,
              pl_current_piece, pl_piece_len, blocks_downloaded,
              blocks_to_download, current_blocks_downloaded, pl_choked,
              pl_interested, pl_requests, pl_interested_sent>>
upload == <<status_bitfield, haves_sent>>
tracker == <<registry, swarms_lock, tracker_pc, tracker_req, tracker_ret>>
\* what an upload session leaves alone
others == <<swarm, stats, pool, codec, pipeline, tracker>>
aux == <<swarm, stats, pool, codec, pipeline, upload, tracker>>
vars == <<pieces_status, free_pieces, downloading_pieces, finished_pieces,
          current_peers, all_current_peers, sessions_status, channel,
          lock_poisoned, file, handler_pc,
          pc, current_piece, piece, bitfield, choked, interested, error,
          disconnects, peer, sent_bitfield,
          swarm_peers, seeders, leechers, now, torrent_swarms,
          stats_history, duration,
          pool_queue, worker_pc, receiver_lock, receiver_poisoned, pool_pc,
          joined, executed, codec,
          pl_pc, pl_torrent, pl_pipelining_size, pl_finished, pl_current_piece,
          pl_piece_len, blocks_downloaded, blocks_to_download,
          current_blocks_downloaded, pl_choked, pl_interested, pl_requests,
          pl_interested_sent, status_bitfield, haves_sent,
          registry, swarms_lock, tracker_pc, tracker_req, tracker_ret,
          last, returned, wire>>

(***************************************************************************)
(* AtomicUsize arithmetic: fetch_add and fetch_sub wrap around.            *)
(***************************************************************************)
UsizeModulus == 2 ^ UsizeBits
fetch_add(x) == (x + 1) % UsizeModulus
fetch_sub(x) == (x - 1) % UsizeModulus

(***************************************************************************)
(* Bitfield (peer_message/bitfield.rs).  A bitfield is a sequence of       *)
(* bytes; indexing a byte past the end panics.                             *)
(***************************************************************************)
InRange(bf, index) == (index \div 8) < Len(bf)

has_piece_lsb(bf, index) ==
    LET byte == bf[(index \div 8) + 1]
        bit_index == index % 8
    IN  ((byte \div (2 ^ bit_index)) % 2) # 0

has_piece(bf, index) ==
    LET byte == bf[(index \div 8) + 1]
        bit_index == 7 - (index % 8)
    IN  ((byte \div (2 ^ bit_index)) % 2) # 0

set_bit(bf, index) ==
    LET byte_index == (index \div 8) + 1
        bit == 2 ^ (7 - (index % 8))
    IN  IF ((bf[byte_index] \div bit) % 2) # 0
        THEN bf
        ELSE [bf EXCEPT ![byte_index] = @ + bit]

\* bytes a remote can send for a torrent of at most 8 pieces: any subset of
\* the pieces, piece 0 in the most significant bit
BitfieldBytes == {k * (2 ^ (8 - TotalPieces)) : k \in 0 .. ((2 ^ TotalPieces) - 1)}
\* payloads of a bitfield message: well formed ones and one that is too short
Bitfields == {<< >>} \cup {<<b>> : b \in BitfieldBytes}

RECURSIVE or_bits(_, _)
\* the byte with the bit of every index of S set (byte | bit, index by index)
or_bits(S, byte) ==
    IF S = {} THEN byte
    ELSE LET i == CHOOSE x \in S : TRUE
         IN  or_bits(S \ {i}, byte + (2 ^ (7 - (i % 8))))

\* Bitfield::from: (len + 7) / 8 bytes, the bit of every Finished piece set
Bitfield_from(ps) ==
    LET bytes_count == (Cardinality(DOMAIN ps) + 7) \div 8
    IN  [k \in 1 .. bytes_count |->
           or_bits({i \in DOMAIN ps : ps[i] = "Finished"
                                      /\ (i \div 8) = (k - 1)}, 0)]

RECURSIVE diff_from(_, _, _)
\* the loops of Bitfield::diff from bit k on: byte by byte, the most
\* significant bit first
diff_from(a, b, k) ==
    IF k >= 8 * Len(a) THEN << >>
    ELSE IF has_piece(a, k) # has_piece(b, k)
    THEN <<k>> \o diff_from(a, b, k + 1)
    ELSE diff_from(a, b, k + 1)

RECURSIVE diff_lsb_from(_, _, _)
diff_lsb_from(a, b, k) ==
    IF k >= 8 * Len(a) THEN << >>
    ELSE IF has_piece_lsb(a, k) # has_piece_lsb(b, k)
    THEN <<k>> \o diff_lsb_from(a, b, k + 1)
    ELSE diff_lsb_from(a, b, k + 1)

diff_lsb(a, b) == diff_lsb_from(a, b, 0)

\* Bitfield::diff: the indices at which two bitfields of the same size
\* differ, in increasing order
diff(a, b) == diff_from(a, b, 0)

(***************************************************************************)
(* Piece data and hashes.  SHA-1 is abstracted by a digest of HashLen      *)
(* bytes that is collision free on the bounded piece contents.             *)
(***************************************************************************)
PieceContents == {<< >>} \cup [1 .. BlocksInPiece -> Blocks]
NoData == <<-1>>

RECURSIVE Mix(_)
Mix(data) ==
    IF data = << >> THEN 7
    ELSE (Mix(SubSeq(data, 1, Len(data) - 1)) * 31 + data[Len(data)] + 1) % 251

Sha1(data) == [k \in 1 .. HashLen |-> (Mix(data) * k + k) % 256]

\* the content the torrent describes for piece i
TorrentData(i) == [k \in 1 .. BlocksInPiece |-> (i + k) % (MaxBlock + 1)]

RECURSIVE info_pieces_upto(_)
info_pieces_upto(n) ==
    IF n = 0 THEN << >> ELSE info_pieces_upto(n - 1) \o Sha1(TorrentData(n - 1))
\* torrent.info.pieces: the concatenated hashes
info_pieces == info_pieces_upto(TotalPieces)

\* "{:02x}" per byte: two hex digits each
convert_to_hex_string(bytes) ==
    LET RECURSIVE go(_)
        go(bs) == IF bs = << >> THEN << >>
                  ELSE <<Head(bs) \div 16, Head(bs) % 16>>
                       \o go(Tail(bs))
    IN go(bytes)

validate_piece_always_ok(data, piece_index) == TRUE

validate_piece(data, piece_index) ==
    LET start == piece_index * HashLen
        end == start + HashLen
        real_hash == SubSeq(info_pieces, start + 1, end)
    IN  convert_to_hex_string(real_hash) = convert_to_hex_string(Sha1(data))

(***************************************************************************)
(* Handshake (peer/handshake.rs).  A frame is a sequence of bytes.         *)
(***************************************************************************)
\* "BitTorrent protocol"
PSTR == <<66, 105, 116, 84, 111, 114, 114, 101, 110, 116, 32,
          112, 114, 111, 116, 111, 99, 111, 108>>

\* torrent.info_hash, the hash a remote of this torrent sends
info_hash == Sha1(info_pieces)
\* the info hash of some other torrent
OtherInfoHash == Sha1(<<MaxBlock + 1>>)
\* the peer id this client sends, and the one a remote sends
client_peer_id == [k \in 1 .. HashLen |-> 45]
RemotePeerId == [k \in 1 .. HashLen |-> 82]

Handshake_new(hash, peer_id) ==
    [pstrlen |-> PstrLen, pstr |-> PSTR, reserved |-> [k \in 1 .. 8 |-> 0],
     info_hash |-> hash, peer_id |-> peer_id]

as_bytes(h) ==
    <<h.pstrlen>> \o h.pstr \o h.reserved \o h.info_hash \o h.peer_id

\* String::from_utf8 on the frames below: a byte of 0x80 and above that
\* stands alone is not UTF-8
from_utf8_ok(bytes) == \A k \in 1 .. Len(bytes) : bytes[k] < 128

InvalidHandshake == [ok |-> FALSE]

from_bytes(bytes) ==
    IF Len(bytes) # HandshakeLen THEN InvalidHandshake
    ELSE LET pstrlen == bytes[1]
         IN  IF pstrlen # PstrLen THEN InvalidHandshake
             ELSE LET pstr == SubSeq(bytes, 2, pstrlen + 1)
                  IN  IF ~from_utf8_ok(pstr) THEN InvalidHandshake
                      ELSE [ok |-> TRUE,
                            pstrlen |-> pstrlen,
                            pstr |-> pstr,
                            reserved |-> SubSeq(bytes, pstrlen + 2, pstrlen + 9),
                            info_hash |-> SubSeq(bytes, pstrlen + 10, pstrlen + 29),
                            peer_id |-> SubSeq(bytes, pstrlen + 30, Len(bytes))]

\* BtPeer::receive_handshake: read_exact of a whole frame, then from_bytes
receive_handshake(bytes) ==
    IF Len(bytes) < HandshakeLen THEN InvalidHandshake
    ELSE from_bytes(SubSeq(bytes, 1, HandshakeLen))

GoodHandshake == as_bytes(Handshake_new(info_hash, RemotePeerId))

\* frames a remote can send: the right one, one with pstrlen 18, one with
\* another protocol string, one whose protocol string is not UTF-8, one for
\* another torrent, one carrying this client's peer id, and a truncated one
RemoteHandshakes ==
    {GoodHandshake,
     [GoodHandshake EXCEPT ![1] = PstrLen - 1],
     [GoodHandshake EXCEPT ![2] = 98],
     [GoodHandshake EXCEPT ![2] = 255],
     as_bytes(Handshake_new(OtherInfoHash, RemotePeerId)),
     as_bytes(Handshake_new(info_hash, client_peer_id)),
     SubSeq(GoodHandshake, 1, HandshakeLen - 1)}

(***************************************************************************)
(* Block store (storage_manager/manager.rs).  Offsets and lengths are in   *)
(* blocks; a piece is piece_length blocks long.                            *)
(***************************************************************************)
piece_length == BlocksInPiece

SavedPieces(f) == {i \in DOMAIN f : f[i] # NoData}

\* length of the file: the end of the farthest write
file_len(f) ==
    IF SavedPieces(f) = {} THEN 0
    ELSE LET ends == {(i * piece_length) + Len(f[i]) : i \in SavedPieces(f)}
         IN  CHOOSE e \in ends : \A x \in ends : x <= e

\* the byte at position k of the file: what was written there, 0 in a hole
byte_at(f, k) ==
    LET i == k \div piece_length
        o == k % piece_length
    IN  IF i \in SavedPieces(f) /\ o < Len(f[i]) THEN f[i][o + 1] ELSE 0

\* retrieve_block: read_exact fails when the range ends past the end of the
\* file (or the file does not exist); io_ok is the outcome of open and seek
retrieve_block(f, offset, length, io_ok) ==
    IF io_ok /\ SavedPieces(f) # {} /\ offset + length <= file_len(f)
    THEN [ok |-> TRUE, data |-> [k \in 1 .. length |-> byte_at(f, offset + k - 1)]]
    ELSE [ok |-> FALSE, data |-> NoData]

(***************************************************************************)
(* Tracker peers (dtracker tracker_peer/peer.rs)                           *)
(***************************************************************************)
PeerEvents == {"none", "started", "stopped", "completed"}

SwarmPeer(id, left, event, last_seen) ==
    [id |-> id, left |-> left, event |-> event, last_seen |-> last_seen]

is_leecher(p) ==
    p.left > 0 \/ (p.event # "completed" /\ p.event # "none")

is_seeder(p) == p.left = 0 \/ p.event = "completed"

(***************************************************************************)
(* Swarm (dtracker torrent_swarm/swarm.rs) as a value: the peers by id and *)
(* the two counters                                                        *)
(***************************************************************************)
Swarm_new == [peers |-> << >>, seeders |-> 0, leechers |-> 0]

\* Swarm::announce
Swarm_announce(sw, incoming_peer) ==
    LET id == incoming_peer.id
        known == id \in DOMAIN sw.peers
        old_leecher == known /\ is_leecher(sw.peers[id])
        old_seeder == known /\ ~is_leecher(sw.peers[id])
        leechers_left == IF old_leecher THEN sw.leechers - 1 ELSE sw.leechers
        seeders_left == IF old_seeder THEN sw.seeders - 1 ELSE sw.seeders
    IN  [peers |-> [k \in DOMAIN sw.peers \cup {id} |->
                      IF k = id THEN incoming_peer ELSE sw.peers[k]],
         seeders |-> IF is_leecher(incoming_peer)
                     THEN seeders_left ELSE seeders_left + 1,
         leechers |-> IF is_leecher(incoming_peer)
                      THEN leechers_left + 1 ELSE leechers_left]

ActivePeers(list, s, l) == [peers |-> list, seeders |-> s, leechers |-> l]

\* choose_multiple(rng, amount): min(amount, len) of the items, each taken
\* once, in any order
choose_multiple(items, amount) ==
    LET n == IF amount < Cardinality(items) THEN amount
             ELSE Cardinality(items)
    IN  {q \in [1 .. n -> items] : \A i, j \in 1 .. n : i # j => q[i] # q[j]}

\* Swarm::get_active_peers: what the call can return
Swarm_get_active_peers(sw, wanted_peers) ==
    {ActivePeers([k \in 1 .. Len(q) |-> sw.peers[q[k]]], sw.seeders,
                 sw.leechers) :
        q \in choose_multiple(DOMAIN sw.peers, wanted_peers)}

\* Swarm::remove_inactive_peers at the time t
Swarm_retain(sw, t) ==
    LET gone == {k \in DOMAIN sw.peers :
                    (t - sw.peers[k].last_seen) > PEER_HOURS_TIMEOUT}
    IN  [peers |-> [k \in DOMAIN sw.peers \ gone |-> sw.peers[k]],
         seeders |-> sw.seeders
                       - Cardinality({k \in gone : ~is_leecher(sw.peers[k])}),
         leechers |-> sw.leechers
                        - Cardinality({k \in gone : is_leecher(sw.peers[k])})]

NoRequest ==
    [op |-> "none", info_hash |-> 0, peer |-> NoPeer, wanted |-> 0, todo |-> {}]
NoActivePeers == [thread |-> NoThread, info_hash |-> 0, wanted |-> 0,
                  active |-> ActivePeers(<< >>, 0, 0)]

(***************************************************************************)
(* Bencode: values, encode and decode over byte strings (ASCII codes)      *)
(***************************************************************************)
b_i == 105
b_l == 108
b_d == 100
b_e == 101
b_colon == 58
b_0 == 48
b_9 == 57
b_minus == 45
b_plus == 43

\* enum Bencode; a BDict is the set of the entries of the BTreeMap
BNumber(n) == [t |-> "BNumber", n |-> n, s |-> << >>, l |-> << >>, d |-> {}]
BString(s) == [t |-> "BString", n |-> 0, s |-> s, l |-> << >>, d |-> {}]
BList(l) == [t |-> "BList", n |-> 0, s |-> << >>, l |-> l, d |-> {}]
BDict(d) == [t |-> "BDict", n |-> 0, s |-> << >>, l |-> << >>, d |-> d]
NoValue == [t |-> "none", n |-> 0, s |-> << >>, l |-> << >>, d |-> {}]

\* BTreeMap::insert: the entry of an equal key is replaced
insert(d, key, value) ==
    {x \in d : x.k # key} \cup {[k |-> key, v |-> value]}

\* Ord for Vec<u8>: byte-wise lexicographic, a proper prefix comes first
RECURSIVE bytes_less(_, _)
bytes_less(a, b) ==
    IF b = << >> THEN FALSE
    ELSE IF a = << >> THEN TRUE
    ELSE IF Head(a) # Head(b) THEN Head(a) < Head(b)
    ELSE bytes_less(Tail(a), Tail(b))

last_key(d) ==
    CHOOSE x \in d : \A y \in d \ {x} : bytes_less(y.k, x.k)

\* the entry a BTreeMap iterates first: the one of the least key
first_key(d) ==
    CHOOSE x \in d : \A y \in d \ {x} : bytes_less(x.k, y.k)

\* to_string of an integer: decimal digits, '-' in front of a negative one
RECURSIVE digits(_)
digits(n) ==
    IF n < 10 THEN <<b_0 + n>>
    ELSE digits(n \div 10) \o <<b_0 + (n % 10)>>

to_string(n) == IF n < 0 THEN <<b_minus>> \o digits(0 - n) ELSE digits(n)

is_digit(b) == b >= b_0 /\ b <= b_9

RECURSIVE digits_value(_, _)
digits_value(bytes, acc) ==
    IF bytes = << >> THEN acc
    ELSE digits_value(Tail(bytes), (acc * 10) + (Head(bytes) - b_0))

\* str::parse::<i64>: an optional sign, then one digit at least and digits
\* only (the inputs of the model are shorter than the 19 digits from which
\* the value can leave i64)
parse(bytes) ==
    LET signed == bytes # << >> /\ Head(bytes) \in {b_plus, b_minus}
        ds == IF signed THEN Tail(bytes) ELSE bytes
    IN  IF ds = << >> \/ (\E k \in 1 .. Len(ds) : ~is_digit(ds[k]))
        THEN [ok |-> FALSE, n |-> 0]
        ELSE [ok |-> TRUE,
              n |-> IF signed /\ Head(bytes) = b_minus
                    THEN 0 - digits_value(ds, 0)
                    ELSE digits_value(ds, 0)]

encode_number(n) == <<b_i>> \o to_string(n) \o <<b_e>>

encode_string(s) == to_string(Len(s)) \o <<b_colon>> \o s

RECURSIVE do_encode(_)
RECURSIVE encode_list_items(_)
RECURSIVE encode_dict_entries(_)
encode_list_items(l) ==
    IF l = << >> THEN << >>
    ELSE do_encode(Head(l)) \o encode_list_items(Tail(l))

encode_list(l) == <<b_l>> \o encode_list_items(l) \o <<b_e>>

\* for (key, value) in d: the BTreeMap iterates in the order of its keys
encode_dict_entries(d) ==
    IF d = {} THEN << >>
    ELSE LET x == first_key(d)
         IN  do_encode(BString(x.k)) \o do_encode(x.v)
                 \o encode_dict_entries(d \ {x})

encode_dict(d) == <<b_d>> \o encode_dict_entries(d) \o <<b_e>>

do_encode(bencode) ==
    CASE bencode.t = "BNumber" -> encode_number(bencode.n)
      [] bencode.t = "BString" -> encode_string(bencode.s)
      [] bencode.t = "BList" -> encode_list(bencode.l)
      [] bencode.t = "BDict" -> encode_dict(bencode.d)

\* Bencode::encode of a value that is its own to_bencode
encode(bencode) == do_encode(bencode)

\* the outcomes of a decoding function: Ok((value, size)), Err(kind), or a
\* panic of the thread (an index past the end of the slice)
DecodeOk(v, size) == [r |-> "ok", v |-> v, size |-> size, kind |-> "none"]
DecodeErr(kind) == [r |-> "err", v |-> NoValue, size |-> 0, kind |-> kind]
DecodePanic == [r |-> "panic", v |-> NoValue, size |-> 0, kind |-> "none"]

BencodeErrors ==
    {"InvalidBencode", "InvalidBencodeType", "InvalidBencodeNumber",
     "InvalidBencodeString", "InvalidBencodeList", "InvalidBencodeDict"}

\* &data[i..], i counted from 0
slice_from(data, i) == SubSeq(data, i + 1, Len(data))

\* while data[i] != b { i += 1 }: the index of the first b at or after i;
\* -1 when the loop runs past the end of data, where data[i] panics
RECURSIVE scan_to(_, _, _)
scan_to(data, i, b) ==
    IF i >= Len(data) THEN -1
    ELSE IF data[i + 1] = b THEN i
    ELSE scan_to(data, i + 1, b)

decode_string(data) ==
    LET i == scan_to(data, 0, b_colon)
    IN  IF i = -1 THEN DecodePanic
        ELSE LET length == SubSeq(data, 1, i)
             IN  IF ~from_utf8_ok(length)
                 THEN DecodeErr("InvalidBencodeString")
                 ELSE LET n == parse(length)
                      IN  IF ~n.ok THEN DecodeErr("InvalidBencodeString")
                          ELSE IF n.n <= 0
                          THEN DecodeOk(BString(<< >>), i + 1)
                          ELSE IF i + 1 + n.n > Len(data) THEN DecodePanic
                          ELSE DecodeOk(BString(SubSeq(data, i + 2, i + 1 + n.n)),
                                        i + 1 + n.n)

decode_number(data) ==
    LET i == scan_to(data, 1, b_e)
    IN  IF i = -1 THEN DecodePanic
        ELSE LET number == SubSeq(data, 2, i)
             IN  IF ~from_utf8_ok(number)
                 THEN DecodeErr("InvalidBencodeNumber")
                 ELSE LET n == parse(number)
                      IN  IF ~n.ok THEN DecodeErr("InvalidBencodeNumber")
                          ELSE DecodeOk(BNumber(n.n), i + 1)

RECURSIVE do_decode(_)
RECURSIVE decode_list_from(_, _, _)
RECURSIVE decode_dict_from(_, _, _)
\* the loop of decode_list, at index i with the values read so far
decode_list_from(data, i, list) ==
    IF i >= Len(data) THEN DecodePanic
    ELSE IF data[i + 1] = b_e THEN DecodeOk(BList(list), i + 1)
    ELSE LET value == do_decode(slice_from(data, i))
         IN  IF value.r # "ok" THEN value
             ELSE decode_list_from(data, i + value.size, Append(list, value.v))

decode_list(data) == decode_list_from(data, 1, << >>)

\* the loop of decode_dict, at index i with the entries read so far
decode_dict_from(data, i, dict) ==
    IF i >= Len(data) THEN DecodePanic
    ELSE IF data[i + 1] = b_e THEN DecodeOk(BDict(dict), i + 1)
    ELSE LET key == do_decode(slice_from(data, i))
         IN  IF key.r # "ok" THEN key
             ELSE LET j == i + key.size
                      value == do_decode(slice_from(data, j))
                  IN  IF value.r # "ok" THEN value
                      ELSE IF key.v.t # "BString"
                      THEN DecodeErr("InvalidBencodeDict")
                      ELSE decode_dict_from(data, j + value.size,
                                            insert(dict, key.v.s, value.v))

decode_dict(data) == decode_dict_from(data, 1, {})

do_decode(data) ==
    IF data = << >> THEN DecodeErr("InvalidBencode")
    ELSE CASE data[1] = b_i -> decode_number(data)
           [] data[1] = b_l -> decode_list(data)
           [] data[1] = b_d -> decode_dict(data)
           [] is_digit(data[1]) -> decode_string(data)
           [] OTHER -> DecodeErr("InvalidBencode")

\* Bencode::decode: the size is dropped
decode(data) == [do_decode(data) EXCEPT !.size = 0]

\* no call of the codec yet
NoCodecCall ==
    [op |-> "none", v |-> NoValue, bytes |-> << >>, data |-> << >>,
     out |-> DecodeErr("none"), peers |-> << >>,
     bt_peers |-> [r |-> "none", peers |-> << >>]]

(***************************************************************************)
(* AtomicTorrentStatus::new, Swarm::new                                    *)
(***************************************************************************)
NoBitfield == <<-1>>
NoTorrent == [length |-> 0, piece_length |-> 0]
NoCall == [op |-> "none", caller |-> NoSession, index |-> NoIndex,
           bf |-> NoBitfield, data |-> NoData, ret |-> "none"]
Call(op, caller, index, bf, data, ret) ==
    [op |-> op, caller |-> caller, index |-> index, bf |-> bf, data |-> data,
     ret |-> ret]
NoWire == [from |-> NoSession, msgs |-> << >>]
Wire(s, msgs) == [from |-> s, msgs |-> msgs]

InitialBitfield == [k \in 1 .. (TotalPieces \div 8) |-> 0]

Init ==
    /\ pieces_status = [i \in Pieces |-> "Free"]
    /\ free_pieces = TotalPieces
    /\ downloading_pieces = 0
    /\ finished_pieces = 0
    /\ current_peers = 0
    /\ all_current_peers = 0
    /\ sessions_status = {}
    /\ channel = 0
    /\ lock_poisoned = FALSE
    /\ file = [i \in Pieces |-> NoData]
    /\ handler_pc = "check"
    /\ pc = [s \in Sessions |-> "new"]
    /\ current_piece = [s \in Sessions |-> 0]
    /\ piece = [s \in Sessions |-> << >>]
    /\ bitfield = [s \in Sessions |-> InitialBitfield]
    /\ choked = [s \in Sessions |-> TRUE]
    /\ interested = [s \in Sessions |-> FALSE]
    /\ error = [s \in Sessions |-> "none"]
    /\ disconnects = [s \in Sessions |-> 0]
    /\ peer = [s \in Sessions |-> NoPeer]
    /\ sent_bitfield = [s \in Sessions |-> FALSE]
    /\ swarm_peers = [id \in {} |-> NoPeer]
    /\ seeders = 0
    /\ leechers = 0
    /\ now = 0
    /\ torrent_swarms = 0
    /\ stats_history = << >>
    /\ duration = 0
    /\ pool_queue = << >>
    /\ worker_pc = [w \in Workers |-> "idle"]
    /\ receiver_lock = NoWorker
    /\ receiver_poisoned = FALSE
    /\ pool_pc = "serving"
    /\ joined = 0
    /\ executed = 0
    /\ codec = NoCodecCall
    /\ pl_pc = "new"
    /\ pl_torrent = NoTorrent
    /\ pl_pipelining_size = 0
    /\ pl_finished = {}
    /\ pl_current_piece = 0
    /\ pl_piece_len = 0
    /\ blocks_downloaded = 0
    /\ blocks_to_download = 0
    /\ current_blocks_downloaded = 0
    /\ pl_choked = TRUE
    /\ pl_interested = FALSE
    /\ pl_requests = << >>
    /\ pl_interested_sent = 0
    /\ status_bitfield = [s \in Sessions |->
                            Bitfield_from([i \in Pieces |-> "Free"])]
    /\ haves_sent = [s \in Sessions |-> << >>]
    /\ registry = [h \in {} |-> Swarm_new]
    /\ swarms_lock = NoThread
    /\ tracker_pc = [t \in TrackerThreads |-> "idle"]
    /\ tracker_req = [t \in TrackerThreads |-> NoRequest]
    /\ tracker_ret = NoActivePeers
    /\ last = NoCall
    /\ returned = [i \in Pieces |-> FALSE]
    /\ wire = NoWire

total_pieces == TotalPieces

is_finished == finished_pieces = total_pieces

\* lock_pieces_status: the mutex is free, or the caller is the thread that
\* holds it (a session holds it while its piece_downloaded writes to the
\* block store)
lock_pieces_status(caller) ==
    \A t \in Sessions \ {caller} : pc[t] # "saving"

\* lock_session_status: the mutex is free (peer_disconnected holds it while
\* it sends its notification)
lock_session_status ==
    \A t \in Sessions : ~(pc[t] = "notify" /\ disconnects[t] = 1)
(***************************************************************************)
(* select_piece.  The map is a HashMap: the Free pieces are visited in an  *)
(* unspecified order and the walk stops at the first one that the bitfield *)
(* has (returned) or whose byte lies past the bitfield's end (has_piece    *)
(* panics while the mutex is held, which poisons it).                      *)
(***************************************************************************)
FreePieces_not_finished(ps) == {i \in DOMAIN ps : ps[i] # "Finished"}

FreePieces(ps) == {i \in DOMAIN ps : ps[i] = "Free"}

DownloadingPieces_not_free(ps) == {i \in DOMAIN ps : ps[i] # "Free"}

DownloadingPieces(ps) == {i \in DOMAIN ps : ps[i] = "Downloading"}

Outcome(kind, index) == [kind |-> kind, index |-> index]

Decisive(ps, bf) ==
    {i \in FreePieces(ps) : (~InRange(bf, i)) \/ has_piece(bf, i)}

SelectOutcomes(ps, bf) ==
    IF FreePieces(ps) = {}
    THEN IF DownloadingPieces(ps) = {}
         THEN {Outcome("None", NoIndex)}
         ELSE {Outcome("Some", i) : i \in DownloadingPieces(ps)}
    ELSE IF Decisive(ps, bf) = {}
         THEN {Outcome("None", NoIndex)}
         ELSE {IF InRange(bf, i) THEN Outcome("Some", i)
                                 ELSE Outcome("Panic", NoIndex)
               : i \in Decisive(ps, bf)}

select_piece(caller, bf) ==
    /\ lock_pieces_status(caller)
    /\ UNCHANGED file
    /\ IF lock_poisoned
       THEN /\ last' = Call("select_piece", caller, NoIndex, bf, NoData,
                            "PoisonedPiecesStatusLock")
            /\ UNCHANGED <<ledger, lock_poisoned, returned>>
       ELSE \E o \in SelectOutcomes(pieces_status, bf) :
              CASE o.kind = "Some" ->
                     /\ pieces_status' =
                            [pieces_status EXCEPT ![o.index] = "Downloading"]
                     /\ downloading_pieces' = fetch_add(downloading_pieces)
                     /\ free_pieces' = fetch_sub(free_pieces)
                     /\ returned' = [returned EXCEPT ![o.index] = TRUE]
                     /\ last' = Call("select_piece", caller, o.index, bf,
                                     NoData, "Some")
                     /\ UNCHANGED <<finished_pieces, lock_poisoned>>
                [] o.kind = "None" ->
                     /\ last' = Call("select_piece", caller, NoIndex, bf,
                                     NoData, "None")
                     /\ UNCHANGED <<ledger, lock_poisoned, returned>>
                [] o.kind = "Panic" ->
                     /\ lock_poisoned' = TRUE
                     /\ last' = Call("select_piece", caller, NoIndex, bf,
                                     NoData, "Panic")
                     /\ UNCHANGED <<ledger, returned>>

(***************************************************************************)
(* piece_downloaded.  io_ok is the outcome of save_piece.                  *)
(***************************************************************************)
piece_downloaded_mark_first(caller, index, data, io_ok) ==
    /\ lock_pieces_status(caller)
    /\ UNCHANGED <<lock_poisoned, returned, free_pieces>>
    /\ IF index \in DOMAIN pieces_status /\ pieces_status[index] = "Downloading"
       THEN /\ pieces_status' = [pieces_status EXCEPT ![index] = "Finished"]
            /\ downloading_pieces' = fetch_sub(downloading_pieces)
            /\ finished_pieces' = fetch_add(finished_pieces)
            /\ file' = IF io_ok THEN [file EXCEPT ![index] = data] ELSE file
            /\ last' = Call("piece_downloaded", caller, index, NoBitfield, data,
                            IF io_ok THEN "Ok" ELSE "SavePieceError")
       ELSE /\ last' = Call("piece_downloaded", caller, index, NoBitfield, data,
                            "PieceWasNotDownloading")
            /\ UNCHANGED <<pieces_status, downloading_pieces, finished_pieces,
                           file>>

piece_downloaded_no_tally(caller, index, data, io_ok) ==
    /\ lock_pieces_status(caller)
    /\ UNCHANGED <<lock_poisoned, returned, free_pieces, finished_pieces>>
    /\ IF index \in DOMAIN pieces_status /\ pieces_status[index] = "Downloading"
          /\ io_ok
       THEN /\ pieces_status' = [pieces_status EXCEPT ![index] = "Finished"]
            /\ downloading_pieces' = fetch_sub(downloading_pieces)
            /\ file' = [file EXCEPT ![index] = data]
            /\ last' = Call("piece_downloaded", caller, index, NoBitfield, data,
                            "Ok")
       ELSE /\ last' = Call("piece_downloaded", caller, index, NoBitfield, data,
                            "PieceWasNotDownloading")
            /\ UNCHANGED <<pieces_status, downloading_pieces, file>>

piece_downloaded(caller, index, data, io_ok) ==
    /\ lock_pieces_status(caller)
    /\ UNCHANGED <<lock_poisoned, returned, free_pieces>>
    /\ IF lock_poisoned
       THEN /\ last' = Call("piece_downloaded", caller, index, NoBitfield, data,
                            "PoisonedPiecesStatusLock")
            /\ UNCHANGED <<pieces_status, downloading_pieces, finished_pieces,
                           file>>
       ELSE IF index \notin DOMAIN pieces_status
       THEN /\ last' = Call("piece_downloaded", caller, index, NoBitfield, data,
                            "InvalidPieceIndex")
            /\ UNCHANGED <<pieces_status, downloading_pieces, finished_pieces,
                           file>>
       ELSE IF pieces_status[index] # "Downloading"
       THEN /\ last' = Call("piece_downloaded", caller, index, NoBitfield, data,
                            "PieceWasNotDownloading")
            /\ UNCHANGED <<pieces_status, downloading_pieces, finished_pieces,
                           file>>
       ELSE IF ~io_ok
       THEN /\ last' = Call("piece_downloaded", caller, index, NoBitfield, data,
                            "SavePieceError")
            /\ UNCHANGED <<pieces_status, downloading_pieces, finished_pieces,
                           file>>
       ELSE /\ file' = [file EXCEPT ![index] = data]
            /\ pieces_status' = [pieces_status EXCEPT ![index] = "Finished"]
            /\ downloading_pieces' = fetch_sub(downloading_pieces)
            /\ finished_pieces' = fetch_add(finished_pieces)
            /\ last' = Call("piece_downloaded", caller, index, NoBitfield, data,
                            "Ok")

(***************************************************************************)
(* piece_aborted                                                           *)
(***************************************************************************)
piece_aborted_unchecked(caller, index) ==
    /\ lock_pieces_status(caller)
    /\ UNCHANGED <<lock_poisoned, finished_pieces, file>>
    /\ IF index \notin DOMAIN pieces_status
       THEN /\ last' = Call("piece_aborted", caller, index, NoBitfield, NoData,
                            "InvalidPieceIndex")
            /\ UNCHANGED <<pieces_status, downloading_pieces, free_pieces,
                           returned>>
       ELSE /\ pieces_status' = [pieces_status EXCEPT ![index] = "Free"]
            /\ downloading_pieces' = fetch_sub(downloading_pieces)
            /\ free_pieces' = fetch_add(free_pieces)
            /\ returned' = [returned EXCEPT ![index] = FALSE]
            /\ last' = Call("piece_aborted", caller, index, NoBitfield, NoData,
                            "Ok")

piece_aborted(caller, index) ==
    /\ lock_pieces_status(caller)
    /\ UNCHANGED <<lock_poisoned, finished_pieces, file>>
    /\ IF lock_poisoned
       THEN /\ last' = Call("piece_aborted", caller, index, NoBitfield, NoData,
                            "PoisonedPiecesStatusLock")
            /\ UNCHANGED <<pieces_status, downloading_pieces, free_pieces,
                           returned>>
       ELSE IF index \notin DOMAIN pieces_status
       THEN /\ last' = Call("piece_aborted", caller, index, NoBitfield, NoData,
                            "InvalidPieceIndex")
            /\ UNCHANGED <<pieces_status, downloading_pieces, free_pieces,
                           returned>>
       ELSE IF pieces_status[index] # "Downloading"
       THEN /\ last' = Call("piece_aborted", caller, index, NoBitfield, NoData,
                            "PieceWasNotDownloading")
            /\ UNCHANGED <<pieces_status, downloading_pieces, free_pieces,
                           returned>>
       ELSE /\ pieces_status' = [pieces_status EXCEPT ![index] = "Free"]
            /\ downloading_pieces' = fetch_sub(downloading_pieces)
            /\ free_pieces' = fetch_add(free_pieces)
            /\ returned' = [returned EXCEPT ![index] = FALSE]
            /\ last' = Call("piece_aborted", caller, index, NoBitfield, NoData,
                            "Ok")

(***************************************************************************)
(* get_piece.  The status check comes first; retrieve_block then reads     *)
(* length blocks at offset, whatever piece they lie in.                    *)
(***************************************************************************)
get_piece_unchecked(caller, index, offset, length, io_ok) ==
    /\ lock_pieces_status(caller)
    /\ UNCHANGED <<ledger, lock_poisoned, file, returned>>
    /\ LET block == retrieve_block(file, offset, length, io_ok)
       IN  IF block.ok
           THEN last' = Call("get_piece", caller, index, NoBitfield,
                             block.data, "Ok")
           ELSE last' = Call("get_piece", caller, index, NoBitfield, NoData,
                             "RetrievingPieceError")

get_piece(caller, index, offset, length, io_ok) ==
    /\ lock_pieces_status(caller)
    /\ UNCHANGED <<ledger, lock_poisoned, file, returned>>
    /\ IF lock_poisoned
       THEN last' = Call("get_piece", caller, index, NoBitfield, NoData,
                         "PoisonedPiecesStatusLock")
       ELSE IF index \notin DOMAIN pieces_status
       THEN last' = Call("get_piece", caller, index, NoBitfield, NoData,
                         "InvalidPieceIndex")
       ELSE IF pieces_status[index] # "Finished"
       THEN last' = Call("get_piece", caller, index, NoBitfield, NoData,
                         "PieceWasNotFinished")
       ELSE LET block == retrieve_block(file, offset, length, io_ok)
            IN  IF block.ok
                THEN last' = Call("get_piece", caller, index, NoBitfield,
                                  block.data, "Ok")
                ELSE last' = Call("get_piece", caller, index, NoBitfield,
                                  NoData, "RetrievingPieceError")

\* get_bitfield fails when the pieces_status mutex is poisoned
get_bitfield_ok == ~lock_poisoned

(***************************************************************************)
(* Spec: the ledger driven by arbitrary calls.                             *)
(***************************************************************************)
CallSelectPiece ==
    /\ (FreePieces(pieces_status) # {}) \/ (downloading_pieces < MaxDownloadingTally)
    /\ \E bf \in Bitfields : select_piece(NoSession, bf)
    /\ UNCHANGED <<peers, session_vars, handler_pc, aux, wire>>

CallPieceDownloaded ==
    /\ \E index \in 0 .. TotalPieces, data \in PieceContents, io_ok \in BOOLEAN :
          piece_downloaded(NoSession, index, data, io_ok)
    /\ UNCHANGED <<peers, session_vars, handler_pc, aux, wire>>

CallPieceAborted ==
    /\ \E index \in 0 .. TotalPieces : piece_aborted(NoSession, index)
    /\ UNCHANGED <<peers, session_vars, handler_pc, aux, wire>>

\* a request for one block: the first of the piece, or the one after its end
CallGetPiece ==
    /\ \E index \in 0 .. TotalPieces, begin \in {0, piece_length},
          io_ok \in BOOLEAN :
          get_piece(NoSession, index, (index * piece_length) + begin, 1, io_ok)
    /\ UNCHANGED <<peers, session_vars, handler_pc, aux, wire>>

Next ==
    \/ CallSelectPiece
    \/ CallPieceDownloaded
    \/ CallPieceAborted
    \/ CallGetPiece

Spec == Init /\ [][Next]_vars

(***************************************************************************)
(* Connected-peer counters and the notification channel.  The blocking     *)
(* send of notify_peer_disconnected is a step of its own: the caller sits  *)
(* at "notify" until the channel has room.                                 *)
(***************************************************************************)
ChannelCapacity == max_peers_per_torrent * ChannelSlotsPerPeer

peer_connecting ==
    /\ all_current_peers' = fetch_add(all_current_peers)
    /\ UNCHANGED <<current_peers, sessions_status, channel>>

\* (the fetch_add precedes the lock in the code; both are taken here once
\* the lock is free)
peer_connected(p) ==
    /\ lock_session_status
    /\ current_peers' = fetch_add(current_peers)
    /\ sessions_status' = sessions_status \cup {p}
    /\ UNCHANGED <<all_current_peers, channel>>

peer_connecting_failed ==
    /\ all_current_peers' = fetch_sub(all_current_peers)
    /\ UNCHANGED <<current_peers, sessions_status, channel>>

peer_disconnected_unchecked(p) ==
    /\ lock_session_status
    /\ current_peers' = fetch_sub(current_peers)
    /\ all_current_peers' = fetch_sub(all_current_peers)
    /\ sessions_status' = sessions_status \ {p}
    /\ UNCHANGED channel

\* returns Err(NoPeersConnected) and changes nothing when current_peers is 0
peer_disconnected(p) ==
    /\ lock_session_status
    /\ IF current_peers = 0
       THEN UNCHANGED peers
       ELSE /\ current_peers' = fetch_sub(current_peers)
            /\ all_current_peers' = fetch_sub(all_current_peers)
            /\ sessions_status' = sessions_status \ {p}
            /\ UNCHANGED channel

\* SyncSender::send returns when the channel has taken the value, or with an
\* error (which is ignored) when the receiver of the orchestrator is gone
notify_peer_disconnected ==
    \/ /\ channel < ChannelCapacity
       /\ channel' = channel + 1
       /\ UNCHANGED <<current_peers, all_current_peers, sessions_status>>
    \/ /\ handler_pc = "returned"
       /\ UNCHANGED peers

(***************************************************************************)
(* Messages a remote can send                                              *)
(***************************************************************************)
Msg(id, bf, index, block) == [id |-> id, bf |-> bf, index |-> index, block |-> block]

\* have indices: the pieces, and one whose byte lies past a well formed bitfield
HaveIndices == Pieces \cup {8 * ((TotalPieces + 7) \div 8)}

ControlMessages ==
    {Msg(id, NoBitfield, NoIndex, 0) : id \in {"Choke", "Unchoke", "KeepAlive"}}
    \cup {Msg("Bitfield", bf, NoIndex, 0) : bf \in Bitfields}
    \cup {Msg("Have", NoBitfield, i, 0) : i \in HaveIndices}

PieceMessages == {Msg("Piece", NoBitfield, NoIndex, b) : b \in Blocks}

\* requests for one block (block is the begin field: the first block of the
\* piece, or the one after its end), and one whose payload is too short
RequestMessages ==
    {Msg("Request", NoBitfield, i, b) : i \in 0 .. TotalPieces,
                                        b \in {0, piece_length}}
    \cup {Msg("Request", NoBitfield, NoIndex, 0)}

InterestMessages ==
    {Msg(id, NoBitfield, NoIndex, 0) : id \in {"Interested", "NotInterested"}}

\* what a leecher sends to an upload session
LeecherMessages ==
    {Msg("KeepAlive", NoBitfield, NoIndex, 0)}
    \cup InterestMessages
    \cup RequestMessages
    \cup {Msg("Have", NoBitfield, i, 0) : i \in HaveIndices}

\* handle_message panics in set_bit when the have index is past the
\* bitfield, and in handle_request when the payload is shorter than 12 bytes
HandlePanics(s, m) ==
    \/ m.id = "Have" /\ ~InRange(bitfield[s], m.index)
    \/ m.id = "Request" /\ m.index = NoIndex

ChokedAfter(s, m) ==
    IF m.id = "Unchoke" THEN FALSE
    ELSE IF m.id = "Choke" THEN TRUE
    ELSE choked[s]

BitfieldAfter(s, m) ==
    IF m.id = "Bitfield" THEN m.bf
    ELSE IF m.id = "Have" THEN set_bit(bitfield[s], m.index)
    ELSE bitfield[s]

\* handle_request: the block is read with get_piece and sent in a piece
\* message when that succeeds
\* (sent: what the step has written to the stream before)
handle_request(s, m, io_ok, sent) ==
    /\ get_piece(s, m.index, (m.index * piece_length) + m.block, 1, io_ok)
    /\ wire' = IF last'.ret = "Ok" THEN Wire(s, Append(sent, "Piece"))
               ELSE IF sent = << >> THEN NoWire
               ELSE Wire(s, sent)

\* the thread is gone: its PeerSession is dropped
\* (the error it returned is only logged: err names it for the reader)
Terminate(s, state, err) ==
    /\ pc' = [pc EXCEPT ![s] = state]
    /\ error' = [error EXCEPT ![s] = "none"]
    /\ current_piece' = [current_piece EXCEPT ![s] = 0]
    /\ piece' = [piece EXCEPT ![s] = << >>]
    /\ bitfield' = [bitfield EXCEPT ![s] = InitialBitfield]
    /\ choked' = [choked EXCEPT ![s] = TRUE]
    /\ interested' = [interested EXCEPT ![s] = FALSE]
    /\ peer' = [peer EXCEPT ![s] = NoPeer]
    /\ sent_bitfield' = [sent_bitfield EXCEPT ![s] = FALSE]

\* the session is on its error path: the error it will return is err, and
\* nothing of the session but current_piece and peer is read again
Fail(s, state, err) ==
    /\ pc' = [pc EXCEPT ![s] = state]
    /\ error' = [error EXCEPT ![s] = err]
    /\ piece' = [piece EXCEPT ![s] = << >>]
    /\ bitfield' = [bitfield EXCEPT ![s] = InitialBitfield]
    /\ choked' = [choked EXCEPT ![s] = TRUE]
    /\ interested' = [interested EXCEPT ![s] = FALSE]
    /\ UNCHANGED <<current_piece, peer, sent_bitfield>>

LedgerIdle == UNCHANGED <<ledger, lock_poisoned, file, returned>>

NoLedgerCall ==
    /\ last' = NoCall
    /\ LedgerIdle

(***************************************************************************)
(* TorrentHandler::handle: the orchestrator                                *)
(***************************************************************************)
\* connect_to_peer(peer): session thread s is the one that is spawned
connect_to_peer(s, p, spawn_ok) ==
    /\ lock_pieces_status(NoSession)
    /\ UNCHANGED disconnects
    /\ IF lock_poisoned
       THEN \* PeerSession::new fails in get_bitfield: no thread is started
            /\ peer_connecting
            /\ handler_pc' = "returned"
            /\ Terminate(s, "failed", "ErrorGettingBitfield")
       ELSE IF spawn_ok
       THEN /\ peer_connecting
            /\ handler_pc' = "check"
            /\ pc' = [pc EXCEPT ![s] = "setup"]
            /\ peer' = [peer EXCEPT ![s] = p]
            /\ UNCHANGED <<current_piece, piece, bitfield, choked, interested,
                           error, sent_bitfield>>
       ELSE \* the spawn failed: peer_disconnected(&peer) on the orchestrator
            /\ Terminate(s, "failed", "spawn")
            /\ IF current_peers = 0
               THEN /\ peer_connecting
                    /\ handler_pc' = "returned"
               ELSE /\ current_peers' = fetch_sub(current_peers)
                    /\ all_current_peers' =
                           fetch_sub(fetch_add(all_current_peers))
                    /\ sessions_status' = sessions_status \ {p}
                    /\ IF channel < ChannelCapacity
                       THEN /\ channel' = channel + 1
                            /\ handler_pc' = "check"
                       ELSE \* the orchestrator blocks in its own send
                            /\ channel' = channel
                            /\ handler_pc' = "blocked"

\* lines 91-106: the cap is reached; recv blocks until a notification is
\* there, and the notifications that are ready are drained
handle_recv ==
    /\ handler_pc = "check"
    /\ all_current_peers >= max_peers_per_torrent
    /\ channel > 0
    /\ channel' = 0
    /\ handler_pc' = "drained"
    /\ UNCHANGED <<current_peers, all_current_peers, sessions_status>>
    /\ UNCHANGED <<session_vars, aux>>
    /\ NoLedgerCall
    /\ wire' = NoWire

\* lines 107-124 for the next peer p of the tracker list
handle(s, p) ==
    /\ \/ handler_pc = "drained"
       \/ handler_pc = "check" /\ all_current_peers < max_peers_per_torrent
    /\ pc[s] = "new"
    /\ NoLedgerCall
    /\ wire' = NoWire
    /\ UNCHANGED aux
    /\ IF is_finished
       THEN /\ handler_pc' = "returned"
            /\ UNCHANGED <<peers, session_vars>>
       ELSE /\ lock_session_status
            /\ IF p \in sessions_status
                  \/ all_current_peers >= max_peers_per_torrent
               THEN /\ handler_pc' = "check"
                    /\ UNCHANGED <<peers, session_vars>>
               ELSE \E spawn_ok \in BOOLEAN : connect_to_peer(s, p, spawn_ok)

(***************************************************************************)
(* PeerSession::start_outgoing_seeder: the download role                   *)
(***************************************************************************)
\* set_up_peer_session: connect, send the handshake, read the remote one.
\* On Err start_outgoing_seeder calls peer_connecting_failed.
set_up_peer_session(s) ==
    /\ pc[s] = "setup"
    /\ LedgerIdle
    /\ UNCHANGED <<disconnects, handler_pc, aux>>
    /\ \E connect_ok \in BOOLEAN, bytes \in RemoteHandshakes :
         LET hs == receive_handshake(bytes)
             err == IF ~connect_ok THEN "CouldNotConnectToPeer"
                    ELSE IF ~hs.ok THEN "BtPeerError"
                    ELSE IF hs.peer_id = client_peer_id THEN "PeerIsOurself"
                    ELSE "Ok"
         IN  /\ last' = IF connect_ok
                        THEN Call("receive_handshake", s, NoIndex, NoBitfield,
                                  bytes, err)
                        ELSE NoCall
             /\ wire' = IF connect_ok THEN Wire(s, <<"Handshake">>) ELSE NoWire
             /\ IF err = "Ok"
                THEN /\ peer_connected(peer[s])
                     /\ pc' = [pc EXCEPT ![s] = "loop"]
                     /\ UNCHANGED <<current_piece, piece, bitfield, choked,
                                    interested, error, peer, sent_bitfield>>
                ELSE /\ peer_connecting_failed
                     /\ Terminate(s, "notify", err)

\* one iteration of start_outgoing_seeder_wrap up to the call of request_pieces
start_outgoing_seeder_wrap(s) ==
    /\ pc[s] = "loop"
    /\ UNCHANGED <<peers, disconnects, handler_pc, aux>>
    /\ \E m \in ControlMessages \cup RequestMessages, io_ok \in BOOLEAN :
         IF HandlePanics(s, m)
         THEN /\ Terminate(s, "panicked", "panic")
              /\ NoLedgerCall
              /\ wire' = NoWire
         ELSE IF m.id = "Request"
         THEN /\ handle_request(s, m, io_ok, << >>)
              /\ IF last'.ret = "Ok"
                 THEN /\ interested' = [interested EXCEPT ![s] =
                                          interested[s] \/ choked[s]]
                      /\ pc' = [pc EXCEPT ![s] =
                                  IF (~choked[s]) /\ interested[s]
                                  THEN "select" ELSE "loop"]
                      /\ UNCHANGED <<current_piece, piece, bitfield, choked,
                                     error, peer, sent_bitfield>>
                 ELSE Fail(s, "disconnect", "ErrorGettingPiece")
         ELSE LET ch == ChokedAfter(s, m)
                  int == interested[s] \/ (ch /\ ~interested[s])
              IN  /\ io_ok
                  /\ NoLedgerCall
                  /\ wire' = IF ch /\ ~interested[s]
                             THEN Wire(s, <<"Interested">>) ELSE NoWire
                  /\ choked' = [choked EXCEPT ![s] = ch]
                  /\ bitfield' = [bitfield EXCEPT ![s] = BitfieldAfter(s, m)]
                  /\ interested' = [interested EXCEPT ![s] = int]
                  /\ pc' = [pc EXCEPT ![s] =
                              IF (~ch) /\ int THEN "select" ELSE "loop"]
                  /\ UNCHANGED <<current_piece, piece, error, peer,
                                 sent_bitfield>>

\* a read or write on the stream fails or times out
stream_error(s) ==
    /\ pc[s] \in {"loop", "download", "wait_interested", "upload"}
    /\ NoLedgerCall
    /\ wire' = NoWire
    /\ UNCHANGED <<peers, disconnects, handler_pc, aux>>
    /\ Fail(s, IF pc[s] = "download" THEN "abort" ELSE "disconnect",
            "ErrorReadingMessage")

\* request_pieces: the call of select_piece; download_piece then sends the
\* requests of the piece (the pipeline takes the blocks of a piece in one go
\* unless their number is a multiple of pipelining_size)
request_pieces(s) ==
    /\ pc[s] = "select"
    /\ select_piece(s, bitfield[s])
    /\ UNCHANGED <<peers, disconnects, handler_pc, aux>>
    /\ wire' = IF last'.ret = "Some"
               THEN Wire(s, [k \in 1 .. BlocksInPiece |-> "Request"])
               ELSE NoWire
    /\ CASE last'.ret = "Some" ->
              /\ current_piece' = [current_piece EXCEPT ![s] = last'.index]
              /\ piece' = [piece EXCEPT ![s] = << >>]
              /\ pc' = [pc EXCEPT ![s] = "download"]
              /\ UNCHANGED <<bitfield, choked, interested, error, peer,
                             sent_bitfield>>
         [] last'.ret = "None" ->
              Fail(s, "disconnect", "NoPiecesLeftToDownloadInThisPeer")
         [] last'.ret = "PoisonedPiecesStatusLock" ->
              Fail(s, "disconnect", "ErrorSelectingPiece")
         [] last'.ret = "Panic" ->
              Terminate(s, "panicked", "panic")

\* download_piece: one message read while the blocks of the piece arrive;
\* the last block is followed by validate_piece
download_piece(s) ==
    /\ pc[s] = "download"
    /\ UNCHANGED <<peers, disconnects, handler_pc, aux>>
    /\ \E m \in ControlMessages \cup PieceMessages \cup RequestMessages,
          io_ok \in BOOLEAN :
         IF HandlePanics(s, m)
         THEN /\ Terminate(s, "panicked", "panic")
              /\ NoLedgerCall
              /\ wire' = NoWire
         ELSE IF m.id = "Request"
         THEN /\ handle_request(s, m, io_ok, << >>)
              /\ IF last'.ret = "Ok"
                 THEN UNCHANGED session_vars
                 ELSE Fail(s, "abort", "ErrorGettingPiece")
         ELSE IF m.id = "Piece"
         THEN LET data == Append(piece[s], m.block)
                  done == Len(data) = BlocksInPiece
                  valid == validate_piece(data, current_piece[s])
              IN  /\ io_ok
                  /\ NoLedgerCall
                  /\ wire' = NoWire
                  /\ IF done /\ ~valid
                     THEN Fail(s, "abort", "PieceHashDoesNotMatch")
                     ELSE /\ piece' = [piece EXCEPT ![s] = data]
                          /\ pc' = [pc EXCEPT ![s] =
                                      IF done THEN "downloaded" ELSE "download"]
                          /\ UNCHANGED <<current_piece, bitfield, choked,
                                         interested, error, peer, sent_bitfield>>
         ELSE /\ io_ok
              /\ NoLedgerCall
              /\ wire' = NoWire
              /\ choked' = [choked EXCEPT ![s] = ChokedAfter(s, m)]
              /\ bitfield' = [bitfield EXCEPT ![s] = BitfieldAfter(s, m)]
              /\ UNCHANGED <<pc, current_piece, piece, interested, error, peer,
                             sent_bitfield>>

\* piece_downloaded gets as far as the call of save_piece
piece_downloaded_saves(index) ==
    /\ ~lock_poisoned
    /\ index \in DOMAIN pieces_status
    /\ pieces_status[index] = "Downloading"

\* request_pieces: download_piece returned Ok and piece_downloaded is called.
\* It takes the piece-map lock and checks the piece; the guard lives until
\* the function returns, the write of save_piece included.
notify_piece_downloaded(s) ==
    /\ pc[s] = "downloaded"
    /\ lock_pieces_status(s)
    /\ wire' = NoWire
    /\ UNCHANGED <<peers, disconnects, handler_pc, aux>>
    /\ IF piece_downloaded_saves(current_piece[s])
       THEN /\ pc' = [pc EXCEPT ![s] = "saving"]
            /\ NoLedgerCall
            /\ UNCHANGED <<current_piece, piece, bitfield, choked, interested,
                           error, peer, sent_bitfield>>
       ELSE /\ piece_downloaded(s, current_piece[s], piece[s], TRUE)
            /\ Fail(s, "disconnect", "ErrorNotifyingPieceDownloaded")

\* save_piece returns inside piece_downloaded, and piece_downloaded returns
save_piece(s) ==
    /\ pc[s] = "saving"
    /\ \E io_ok \in BOOLEAN :
         piece_downloaded(s, current_piece[s], piece[s], io_ok)
    /\ wire' = NoWire
    /\ UNCHANGED <<peers, disconnects, handler_pc, aux>>
    /\ IF last'.ret = "Ok"
       THEN /\ pc' = [pc EXCEPT ![s] = IF choked[s] THEN "loop" ELSE "select"]
            /\ UNCHANGED <<current_piece, piece, bitfield, choked, interested,
                           error, peer, sent_bitfield>>
       ELSE Fail(s, "disconnect", "ErrorNotifyingPieceDownloaded")

\* request_pieces: download_piece returned Err
abort_piece(s) ==
    /\ pc[s] = "abort"
    /\ piece_aborted(s, current_piece[s])
    /\ wire' = NoWire
    /\ UNCHANGED <<peers, disconnects, handler_pc, aux>>
    /\ pc' = [pc EXCEPT ![s] = "disconnect"]
    /\ error' = [error EXCEPT ![s] =
                   IF last'.ret = "Ok" THEN error[s] ELSE "ErrorAbortingPiece"]
    /\ UNCHANGED <<current_piece, piece, bitfield, choked, interested, peer,
                   sent_bitfield>>

\* start_outgoing_seeder / unchoke_incoming_leecher: the wrap returned Err and
\* peer_disconnected is called, up to its call of notify_peer_disconnected
disconnect(s) ==
    /\ pc[s] = "disconnect"
    /\ NoLedgerCall
    /\ wire' = NoWire
    /\ UNCHANGED <<handler_pc, aux>>
    /\ peer_disconnected(peer[s])
    /\ disconnects' = [disconnects EXCEPT ![s] = @ + 1]
    /\ IF current_peers = 0
       THEN Terminate(s, "ended", "ErrorDisconnectingFromPeer")
       ELSE Terminate(s, "notify", error[s])

\* the send of notify_peer_disconnected returns, and with it
\* peer_disconnected or peer_connecting_failed, and the thread ends
notify(s) ==
    /\ pc[s] = "notify"
    /\ notify_peer_disconnected
    /\ NoLedgerCall
    /\ wire' = NoWire
    /\ UNCHANGED <<handler_pc, aux>>
    /\ pc' = [pc EXCEPT ![s] = IF disconnects[s] > 0 THEN "ended" ELSE "failed"]
    /\ UNCHANGED <<current_piece, piece, bitfield, choked, interested, error,
                   disconnects, peer, sent_bitfield>>

(***************************************************************************)
(* BtServer: the accept loop and the upload role                           *)
(***************************************************************************)
\* handle_connection for a connection from address p, up to and including
\* handshake_incoming_leecher; the accept loop takes one connection at a time
handle_connection(s, p) ==
    /\ pc[s] = "new"
    /\ \A t \in Sessions : pc[t] # "accepted"
    /\ lock_pieces_status(NoSession)
    /\ LedgerIdle
    /\ UNCHANGED <<peers, disconnects, handler_pc, others>>
    /\ \E bytes \in RemoteHandshakes, write_ok \in BOOLEAN :
         LET hs == receive_handshake(bytes)
             err == IF ~hs.ok THEN "HandshakeError"
                    ELSE IF hs.info_hash # info_hash THEN "TorrentNotFound"
                    ELSE IF all_current_peers >= max_peers_per_torrent
                    THEN "MaxPeersConnectedReached"
                    ELSE IF ~get_bitfield_ok THEN "ErrorGettingBitfield"
                    ELSE IF ~write_ok THEN "MessageHandlerError"
                    ELSE "Ok"
         IN  /\ write_ok \/ err = "MessageHandlerError"
             /\ last' = Call("receive_handshake", s, NoIndex, NoBitfield,
                             bytes, err)
             /\ IF err = "Ok"
                THEN /\ wire' = Wire(s, <<"Handshake", "Bitfield">>)
                     /\ pc' = [pc EXCEPT ![s] = "accepted"]
                     /\ peer' = [peer EXCEPT ![s] = p]
                     /\ sent_bitfield' = [sent_bitfield EXCEPT ![s] = TRUE]
                     \* PeerSession::new: status.bitfield is get_bitfield()
                     /\ status_bitfield' = [status_bitfield EXCEPT ![s] =
                                              Bitfield_from(pieces_status)]
                     /\ haves_sent' = [haves_sent EXCEPT ![s] = << >>]
                     /\ UNCHANGED <<current_piece, piece, bitfield, choked,
                                    interested, error>>
                ELSE /\ wire' = NoWire
                     /\ UNCHANGED <<pc, current_piece, piece, bitfield, choked,
                                    interested, error, peer, sent_bitfield,
                                    upload>>

\* unchoke_peer: peer_connecting, then the session thread is spawned; a
\* failed spawn is logged and nothing is undone
unchoke_peer(s) ==
    /\ pc[s] = "accepted"
    /\ peer_connecting
    /\ NoLedgerCall
    /\ wire' = NoWire
    /\ UNCHANGED <<disconnects, handler_pc, aux>>
    /\ \E spawn_ok \in BOOLEAN :
         IF spawn_ok
         THEN /\ pc' = [pc EXCEPT ![s] = "unchoke"]
              /\ UNCHANGED <<current_piece, piece, bitfield, choked, interested,
                             error, peer, sent_bitfield>>
         ELSE Terminate(s, "failed", "spawn")

\* unchoke_incoming_leecher: peer_connected
unchoke_incoming_leecher(s) ==
    /\ pc[s] = "unchoke"
    /\ peer_connected(peer[s])
    /\ NoLedgerCall
    /\ wire' = NoWire
    /\ UNCHANGED <<disconnects, handler_pc, aux>>
    /\ pc' = [pc EXCEPT ![s] = "wait_interested"]
    /\ UNCHANGED <<current_piece, piece, bitfield, choked, interested, error,
                   peer, sent_bitfield>>

\* unchoke_incoming_leecher_wrap, lines 151-170: one message read while the
\* session waits for interested
wait_for_interested(s) ==
    /\ pc[s] = "wait_interested"
    /\ UNCHANGED <<peers, disconnects, handler_pc, aux>>
    /\ \E m \in LeecherMessages, io_ok \in BOOLEAN :
         IF HandlePanics(s, m)
         THEN /\ Terminate(s, "panicked", "panic")
              /\ NoLedgerCall
              /\ wire' = NoWire
         ELSE IF m.id = "Request"
         THEN /\ handle_request(s, m, io_ok, << >>)
              /\ IF last'.ret = "Ok"
                 THEN UNCHANGED <<pc, current_piece, piece, bitfield, choked,
                                  interested, error, peer, sent_bitfield>>
                 ELSE Fail(s, "disconnect", "ErrorGettingPiece")
         ELSE /\ io_ok
              /\ NoLedgerCall
              /\ CASE m.id = "NotInterested" ->
                        /\ wire' = NoWire
                        /\ Fail(s, "disconnect", "PeerNotInterested")
                   [] m.id = "Interested" ->
                        /\ wire' = Wire(s, <<"Unchoke">>)
                        /\ pc' = [pc EXCEPT ![s] = "upload"]
                        /\ UNCHANGED <<current_piece, piece, bitfield, choked,
                                       interested, error, peer, sent_bitfield>>
                   [] OTHER ->
                        /\ wire' = NoWire
                        /\ bitfield' = [bitfield EXCEPT ![s] =
                                          BitfieldAfter(s, m)]
                        /\ UNCHANGED <<pc, current_piece, piece, choked,
                                       interested, error, peer, sent_bitfield>>

\* unchoke_incoming_leecher_wrap, lines 172-177: update_bitfield (a have per
\* index of the diff, then the bitfield), then one message read
upload_loop(s) ==
    /\ pc[s] = "upload"
    /\ lock_pieces_status(s)
    /\ UNCHANGED <<peers, disconnects, handler_pc, others>>
    /\ IF ~get_bitfield_ok
       THEN /\ NoLedgerCall
            /\ wire' = NoWire
            /\ UNCHANGED upload
            /\ Fail(s, "disconnect", "ErrorGettingBitfield")
       ELSE
         LET updated_bitfield == Bitfield_from(pieces_status)
             indices == diff(updated_bitfield, status_bitfield[s])
             haves == [k \in 1 .. Len(indices) |-> "Have"]
             sent == haves \o <<"Bitfield">>
         IN  \* the write after n have messages fails
             \/ \E n \in 0 .. Len(indices) :
                  /\ haves_sent' = [haves_sent EXCEPT ![s] =
                                      @ \o SubSeq(indices, 1, n)]
                  /\ status_bitfield' = [status_bitfield EXCEPT ![s] =
                                           IF n = Len(indices)
                                           THEN updated_bitfield ELSE @]
                  /\ NoLedgerCall
                  /\ wire' = IF n = 0 THEN NoWire
                             ELSE Wire(s, SubSeq(haves, 1, n))
                  /\ Fail(s, "disconnect", "MessageHandlerError")
             \/ /\ haves_sent' = [haves_sent EXCEPT ![s] = @ \o indices]
                /\ status_bitfield' = [status_bitfield EXCEPT ![s] =
                                         updated_bitfield]
                /\ \E m \in LeecherMessages, io_ok \in BOOLEAN :
                     IF HandlePanics(s, m)
                     THEN /\ Terminate(s, "panicked", "panic")
                          /\ NoLedgerCall
                          /\ wire' = Wire(s, sent)
                     ELSE IF m.id = "Request"
                     THEN /\ handle_request(s, m, io_ok, sent)
                          /\ IF last'.ret = "Ok"
                             THEN UNCHANGED <<pc, current_piece, piece,
                                              bitfield, choked, interested,
                                              error, peer, sent_bitfield>>
                             ELSE Fail(s, "disconnect", "ErrorGettingPiece")
                     ELSE /\ io_ok
                          /\ NoLedgerCall
                          /\ wire' = Wire(s, sent)
                          /\ bitfield' = [bitfield EXCEPT ![s] =
                                            BitfieldAfter(s, m)]
                          /\ UNCHANGED <<pc, current_piece, piece, choked,
                                         interested, error, peer,
                                         sent_bitfield>>

\* the JoinHandle and the PeerSession of an ended thread are dropped: the
\* orchestrator and the accept loop can start another session
session_dropped(s) ==
    /\ pc[s] \in {"ended", "failed", "panicked"}
    /\ pc' = [pc EXCEPT ![s] = "new"]
    /\ disconnects' = [disconnects EXCEPT ![s] = 0]
    /\ NoLedgerCall
    /\ wire' = NoWire
    /\ UNCHANGED <<peers, handler_pc, aux>>
    /\ UNCHANGED <<current_piece, piece, bitfield, choked, interested, error,
                   peer, sent_bitfield>>

(***************************************************************************)
(* SessionSpec: sessions to distinct peers against one ledger              *)
(***************************************************************************)
\* (with one thread per slot the orchestrator never finds the cap reached
\* and a notification waiting, so it never waits in handle_recv)
SessionNext ==
    \E s \in Sessions :
        \/ handle(s, s)
        \/ set_up_peer_session(s)
        \/ start_outgoing_seeder_wrap(s)
        \/ stream_error(s)
        \/ request_pieces(s)
        \/ download_piece(s)
        \/ notify_piece_downloaded(s)
        \/ save_piece(s)
        \/ abort_piece(s)
        \/ disconnect(s)
        \/ notify(s)
        \/ handle_connection(s, s)
        \/ unchoke_peer(s)
        \/ unchoke_incoming_leecher(s)
        \/ wait_for_interested(s)
        \/ upload_loop(s)

SessionSpec == Init /\ [][SessionNext]_vars

(***************************************************************************)
(* PeerSpec: the orchestrator, the accept loop and the life cycle of the   *)
(* sessions, with any peer of the tracker list in any order, and session   *)
(* threads that come and go                                                *)
(***************************************************************************)
PeerNext ==
    \/ handle_recv
    \/ \E s \in Sessions :
        \/ \E p \in PeerAddrs : handle(s, p)
        \/ set_up_peer_session(s)
        \/ stream_error(s)
        \/ disconnect(s)
        \/ notify(s)
        \/ \E p \in PeerAddrs : handle_connection(s, p)
        \/ unchoke_peer(s)
        \/ unchoke_incoming_leecher(s)
        \/ session_dropped(s)

PeerSpec == Init /\ [][PeerNext]_vars

\* PeerSpec with the steps that need nothing from outside taken eventually:
\* a thread that can run does run, a connect attempt ends within its
\* timeout; nothing makes a remote send, close or connect
PeerFairness ==
    /\ WF_vars(handle_recv)
    /\ \A s \in Sessions :
         /\ WF_vars(set_up_peer_session(s))
         /\ WF_vars(disconnect(s))
         /\ WF_vars(notify(s))
         /\ WF_vars(unchoke_peer(s))
         /\ WF_vars(unchoke_incoming_leecher(s))
         /\ WF_vars(session_dropped(s))

PeerLiveSpec == PeerSpec /\ PeerFairness

(***************************************************************************)
(* SwarmSpec: one swarm of the tracker                                     *)
(***************************************************************************)
\* the step is the call op of the tracker; the client is not involved
ClientIdle(op) ==
    /\ last' = Call(op, NoSession, NoIndex, NoBitfield, NoData, "Ok")
    /\ LedgerIdle
    /\ wire' = NoWire
    /\ UNCHANGED <<peers, session_vars, handler_pc, upload>>

TrackerCall(op) ==
    /\ ClientIdle(op)
    /\ UNCHANGED <<stats, pool, codec, pipeline, tracker>>

SwarmIdle(op) == TrackerCall(op)

announce_keeps_old_count(id, left, event, last_seen) ==
    LET incoming_peer == SwarmPeer(id, left, event, last_seen)
    IN  /\ swarm_peers' = [k \in DOMAIN swarm_peers \cup {id} |->
                             IF k = id THEN incoming_peer ELSE swarm_peers[k]]
        /\ leechers' = IF is_leecher(incoming_peer)
                       THEN leechers + 1 ELSE leechers
        /\ seeders' = IF is_leecher(incoming_peer)
                      THEN seeders ELSE seeders + 1
        /\ torrent_swarms' = 1
        /\ UNCHANGED now
        /\ SwarmIdle("announce")

\* AtomicTrackerStatus::incoming_peer and Swarm::announce
\* (last_seen is Local::now() for a peer built from a request; a caller of
\* incoming_peer can hand in a peer with any earlier last_seen)
announce(id, left, event, last_seen) ==
    LET incoming_peer == SwarmPeer(id, left, event, last_seen)
        known == id \in DOMAIN swarm_peers
        old_leecher == known /\ is_leecher(swarm_peers[id])
        old_seeder == known /\ ~is_leecher(swarm_peers[id])
        leechers_left == IF old_leecher THEN leechers - 1 ELSE leechers
        seeders_left == IF old_seeder THEN seeders - 1 ELSE seeders
    IN  /\ swarm_peers' = [k \in DOMAIN swarm_peers \cup {id} |->
                             IF k = id THEN incoming_peer ELSE swarm_peers[k]]
        /\ leechers' = IF is_leecher(incoming_peer)
                       THEN leechers_left + 1 ELSE leechers_left
        /\ seeders' = IF is_leecher(incoming_peer)
                      THEN seeders_left ELSE seeders_left + 1
        /\ torrent_swarms' = 1
        /\ UNCHANGED now
        /\ SwarmIdle("announce")

inactive(p) == (now - p.last_seen) > PEER_HOURS_TIMEOUT

\* Swarm::remove_inactive_peers, for the one swarm of the tracker
Swarm_remove_inactive_peers ==
    LET gone == {k \in DOMAIN swarm_peers : inactive(swarm_peers[k])}
    IN  /\ swarm_peers' = [k \in DOMAIN swarm_peers \ gone |-> swarm_peers[k]]
        /\ leechers' = leechers
                       - Cardinality({k \in gone : is_leecher(swarm_peers[k])})
        /\ seeders' = seeders
                      - Cardinality({k \in gone : ~is_leecher(swarm_peers[k])})
        /\ UNCHANGED <<now, torrent_swarms>>

remove_inactive_peers ==
    /\ Swarm_remove_inactive_peers
    /\ SwarmIdle("remove_inactive_peers")

\* an hour passes
tick ==
    /\ now < MaxTime
    /\ now' = now + 1
    /\ UNCHANGED <<swarm_peers, seeders, leechers, torrent_swarms>>
    /\ SwarmIdle("tick")

SwarmNext ==
    \/ \E id \in SwarmPeerIds, left \in 0 .. MaxLeft, event \in PeerEvents,
          last_seen \in 0 .. now :
         announce(id, left, event, last_seen)
    \/ remove_inactive_peers
    \/ tick

SwarmSpec == Init /\ [][SwarmNext]_vars

(***************************************************************************)
(* RegistrySpec: the threads of the tracker call incoming_peer and         *)
(* remove_inactive_peers on one AtomicTrackerStatus.  A call is split at   *)
(* every step it makes on a swarm, with the MutexGuard held in between.    *)
(***************************************************************************)
\* the step is a step of thread t in the call op
RegistryCall(op, t) ==
    /\ last' = Call(op, t, NoIndex, NoBitfield, NoData, "Ok")
    /\ LedgerIdle
    /\ wire' = NoWire
    /\ UNCHANGED <<peers, session_vars, handler_pc, upload, swarm, stats, pool,
                   codec, pipeline>>

lock_swarms_unguarded == TRUE
\* lock_swarms returns when the Mutex is free
lock_swarms == swarms_lock = NoThread

\* incoming_peer, lines 47-52: lock_swarms, entry().or_insert_with, announce
incoming_peer(t, hash, peer_, wanted_peers) ==
    /\ tracker_pc[t] = "idle"
    /\ lock_swarms
    /\ swarms_lock' = t
    /\ LET torrent_swarm == IF hash \in DOMAIN registry
                            THEN registry[hash] ELSE Swarm_new
       IN  registry' = [h \in DOMAIN registry \cup {hash} |->
                          IF h = hash
                          THEN Swarm_announce(torrent_swarm, peer_)
                          ELSE registry[h]]
    /\ tracker_pc' = [tracker_pc EXCEPT ![t] = "announced"]
    /\ tracker_req' = [tracker_req EXCEPT ![t] =
                         [op |-> "incoming_peer", info_hash |-> hash,
                          peer |-> peer_, wanted |-> wanted_peers,
                          todo |-> {}]]
    /\ tracker_ret' = NoActivePeers
    /\ RegistryCall("announce", t)

\* incoming_peer, line 54: get_active_peers, and the guard is dropped
incoming_peer_returns(t) ==
    /\ tracker_pc[t] = "announced"
    /\ \E active \in Swarm_get_active_peers(registry[tracker_req[t].info_hash],
                                            tracker_req[t].wanted) :
         tracker_ret' = [thread |-> t,
                         info_hash |-> tracker_req[t].info_hash,
                         wanted |-> tracker_req[t].wanted,
                         active |-> active]
    /\ swarms_lock' = NoThread
    /\ tracker_pc' = [tracker_pc EXCEPT ![t] = "idle"]
    /\ tracker_req' = [tracker_req EXCEPT ![t] = NoRequest]
    /\ UNCHANGED registry
    /\ RegistryCall("get_active_peers", t)

\* AtomicTrackerStatus::remove_inactive_peers: lock_swarms and values_mut();
\* the guard lives as long as the for loop
registry_remove_inactive_peers(t) ==
    /\ tracker_pc[t] = "idle"
    /\ lock_swarms
    /\ DOMAIN registry # {}
    /\ swarms_lock' = t
    /\ tracker_pc' = [tracker_pc EXCEPT ![t] = "removing"]
    /\ tracker_req' = [tracker_req EXCEPT ![t] =
                         [op |-> "remove_inactive_peers", info_hash |-> 0,
                          peer |-> NoPeer, wanted |-> 0,
                          todo |-> DOMAIN registry]]
    /\ tracker_ret' = NoActivePeers
    /\ UNCHANGED registry
    /\ RegistryCall("lock_swarms", t)

\* one turn of the for loop, on the next swarm of the iteration (a HashMap
\* iterates in any order); the guard is dropped after the last one
registry_remove_in_swarm(t) ==
    /\ tracker_pc[t] = "removing"
    /\ \E h \in tracker_req[t].todo :
         LET rest == tracker_req[t].todo \ {h}
         IN  /\ registry' = [registry EXCEPT ![h] = Swarm_retain(@, now)]
             /\ tracker_req' = [tracker_req EXCEPT ![t] =
                                  IF rest = {} THEN NoRequest
                                  ELSE [@ EXCEPT !.todo = rest]]
             /\ tracker_pc' = [tracker_pc EXCEPT ![t] =
                                 IF rest = {} THEN "idle" ELSE "removing"]
             /\ swarms_lock' = IF rest = {} THEN NoThread ELSE swarms_lock
    /\ tracker_ret' = NoActivePeers
    /\ RegistryCall("remove_inactive_peers", t)

\* an hour passes between two calls
registry_tick ==
    /\ now < MaxRegistryTime
    /\ swarms_lock = NoThread
    /\ now' = now + 1
    /\ tracker_ret' = NoActivePeers
    /\ UNCHANGED <<registry, swarms_lock, tracker_pc, tracker_req>>
    /\ last' = Call("tick", NoSession, NoIndex, NoBitfield, NoData, "Ok")
    /\ LedgerIdle
    /\ wire' = NoWire
    /\ UNCHANGED <<peers, session_vars, handler_pc, upload, swarm_peers,
                   seeders, leechers, torrent_swarms, stats, pool, codec,
                   pipeline>>

\* the event of the peers that announce to the registry: a regular
\* announce, so that left alone tells seeders from leechers
RegistryEvents == {"none"}

RegistryNext ==
    \/ \E t \in TrackerThreads :
         \/ \E hash \in InfoHashes, id \in SwarmPeerIds,
               left \in 0 .. MaxLeft, event \in RegistryEvents,
               wanted_peers \in 1 .. MaxWanted :
              incoming_peer(t, hash, SwarmPeer(id, left, event, now),
                            wanted_peers)
         \/ incoming_peer_returns(t)
         \/ registry_remove_inactive_peers(t)
         \/ registry_remove_in_swarm(t)
    \/ registry_tick

RegistrySpec == Init /\ [][RegistryNext]_vars

(***************************************************************************)
(* StatsSpec: the stats updater of the tracker, over the same swarm        *)
(***************************************************************************)
\* chrono::Duration::days(d), in seconds
Duration_days(d) == d * 24 * 60 * 60

\* the bucket sizes a StatsUpdater is built with
StatsDurations == {Duration_days(d) : d \in StatsDays}

max_secs_to_keep_stats == MAX_DAYS_TO_KEEP_STATS * 24 * 60 * 60

CurrentTrackerStats_new(torrents, s, l) ==
    [torrents |-> torrents, seeders |-> s, leechers |-> l]

\* slice::rotate_left: the first k elements move to the end
rotate_left_none(v, k) == v

rotate_left(v, k) ==
    SubSeq(v, k + 1, Len(v)) \o SubSeq(v, 1, k)

\* Vec::pop: removes the last element (nothing when the Vec is empty)
pop(v) == SubSeq(v, 1, Len(v) - 1)

\* the step is the call op of the stats updater, made with len snapshots in
\* the history
StatsCall(op, len) ==
    /\ last' = Call(op, NoSession, len, NoBitfield, NoData, "Ok")
    /\ LedgerIdle
    /\ wire' = NoWire
    /\ UNCHANGED <<peers, session_vars, handler_pc, upload, pool, codec,
                   pipeline, tracker>>

StatsUpdater_new(timeout) ==
    /\ duration = 0
    /\ duration' = timeout
    /\ stats_history' = << >>
    /\ UNCHANGED swarm
    /\ StatsCall("new", 0)

\* one cycle of StatsUpdater::run, up to its sleep
run ==
    /\ duration # 0
    /\ Swarm_remove_inactive_peers
    /\ LET kept == IF duration * Len(stats_history) > max_secs_to_keep_stats
                   THEN pop(rotate_left(stats_history, 1))
                   ELSE stats_history
           \* get_global_statistics, after the eviction
           get_global_statistics ==
               CurrentTrackerStats_new(torrent_swarms', seeders', leechers')
       IN  stats_history' = Append(kept, get_global_statistics)
    /\ UNCHANGED duration
    /\ StatsCall("run", Len(stats_history))

StatsNext ==
    \/ \E timeout \in StatsDurations : StatsUpdater_new(timeout)
    \/ run
    \/ \E id \in SwarmPeerIds, left \in 0 .. MaxLeft, event \in PeerEvents :
         announce(id, left, event, now)
    \/ tick

StatsSpec == Init /\ [][StatsNext]_vars

(***************************************************************************)
(* PoolSpec: the thread pool of the tracker's HTTP server                  *)
(***************************************************************************)
\* the step is the call op of the pool or of worker w
PoolCall(op, w) ==
    /\ last' = Call(op, w, NoIndex, NoBitfield, NoData, "Ok")
    /\ LedgerIdle
    /\ wire' = NoWire
    /\ UNCHANGED <<peers, session_vars, handler_pc, upload, swarm, stats,
                   codec, pipeline, tracker>>

\* the Receiver lives until the last worker thread, which holds the last
\* Arc of it, has ended
receiver_alive == \E w \in Workers : worker_pc[w] # "panicked"

\* Sender::send: Err when the Receiver is gone
send(q, message) == IF receiver_alive THEN Append(q, message) ELSE q

RECURSIVE send_terminates(_, _)
send_terminates(q, n) ==
    IF n = 0 THEN q ELSE send_terminates(send(q, "Terminate"), n - 1)

\* ThreadPool::execute
execute ==
    /\ pool_pc = "serving"
    /\ executed < MaxJobs
    /\ pool_queue' = send(pool_queue, "NewJob")
    /\ executed' = executed + 1
    /\ UNCHANGED <<worker_pc, receiver_lock, receiver_poisoned, pool_pc, joined>>
    /\ PoolCall("execute", NoWorker)

\* Drop for ThreadPool, first loop: one Terminate per worker
drop ==
    /\ pool_pc = "serving"
    /\ pool_queue' = send_terminates(pool_queue, NumWorkers)
    /\ pool_pc' = "joining"
    /\ UNCHANGED <<worker_pc, receiver_lock, receiver_poisoned, joined, executed>>
    /\ PoolCall("drop", NoWorker)

\* Drop for ThreadPool, second loop: thread.join() of the next worker returns
\* when its thread has ended
join ==
    /\ pool_pc = "joining"
    /\ joined < NumWorkers
    /\ worker_pc[joined + 1] = "panicked"
    /\ joined' = joined + 1
    /\ pool_pc' = IF joined + 1 = NumWorkers THEN "dropped" ELSE "joining"
    /\ UNCHANGED <<pool_queue, worker_pc, receiver_lock, receiver_poisoned,
                   executed>>
    /\ PoolCall("join", joined + 1)

\* receiver.lock().unwrap() in the scrutinee of the while let: the guard is a
\* temporary of the scrutinee, which lives to the end of the loop body
worker_lock(w) ==
    /\ worker_pc[w] = "idle"
    /\ receiver_lock = NoWorker
    /\ IF receiver_poisoned
       THEN /\ worker_pc' = [worker_pc EXCEPT ![w] = "panicked"]
            /\ UNCHANGED receiver_lock
       ELSE /\ worker_pc' = [worker_pc EXCEPT ![w] = "recv"]
            /\ receiver_lock' = w
    /\ UNCHANGED <<pool_queue, receiver_poisoned, pool_pc, joined, executed>>
    /\ PoolCall("lock", w)

\* recv() returns a message: a job is called with the guard still alive; on
\* Terminate the break leaves the while let, the guard is dropped, and the
\* enclosing loop starts the while let again
worker_recv(w) ==
    /\ worker_pc[w] = "recv"
    /\ pool_queue # << >>
    /\ pool_queue' = Tail(pool_queue)
    /\ IF Head(pool_queue) = "NewJob"
       THEN /\ worker_pc' = [worker_pc EXCEPT ![w] = "job"]
            /\ UNCHANGED receiver_lock
            /\ PoolCall("recv_job", w)
       ELSE /\ worker_pc' = [worker_pc EXCEPT ![w] = "idle"]
            /\ receiver_lock' = NoWorker
            /\ PoolCall("recv_terminate", w)
    /\ UNCHANGED <<receiver_poisoned, pool_pc, joined, executed>>

\* job() returns: the body of the while let ends and the guard is dropped
job_returns(w) ==
    /\ worker_pc[w] = "job"
    /\ worker_pc' = [worker_pc EXCEPT ![w] = "idle"]
    /\ receiver_lock' = NoWorker
    /\ UNCHANGED <<pool_queue, receiver_poisoned, pool_pc, joined, executed>>
    /\ PoolCall("job_returns", w)

\* job() panics: the thread unwinds with the guard alive, which poisons the
\* mutex
job_panics(w) ==
    /\ worker_pc[w] = "job"
    /\ worker_pc' = [worker_pc EXCEPT ![w] = "panicked"]
    /\ receiver_lock' = NoWorker
    /\ receiver_poisoned' = TRUE
    /\ UNCHANGED <<pool_queue, pool_pc, joined, executed>>
    /\ PoolCall("job_panics", w)

\* recv() returns Err only once the Sender is dropped, which is after every
\* join of drop has returned: no worker is left to see it
PoolNext ==
    \/ execute
    \/ drop
    \/ join
    \/ \E w \in Workers :
        \/ worker_lock(w)
        \/ worker_recv(w)
        \/ job_returns(w)
        \/ job_panics(w)

PoolSpec == Init /\ [][PoolNext]_vars

(***************************************************************************)
(* BencodeSpec: the codec applied to bounded sets of values and inputs     *)
(***************************************************************************)
ByteStrings(A, n) == UNION {[1 .. k -> A] : k \in 0 .. n}

CodecNumbers == {-12, -1, 0, 7, 10}

\* '1', ':', 'a', 'e'
StringBytes == {b_0 + 1, b_colon, 97, b_e}

CodecStrings == ByteStrings(StringBytes, MaxStringLen)

\* keys over 'a' and 'e': "a" is a proper prefix of "ae"
CodecKeys == ByteStrings({97, b_e}, MaxStringLen)

Leaves ==
    {BNumber(n) : n \in CodecNumbers} \cup {BString(x) : x \in CodecStrings}

SmallLeaves ==
    {BNumber(-1), BNumber(10), BString(<< >>), BString(<<b_e, b_colon>>)}

Lists(V) == {BList(l) : l \in UNION {[1 .. k -> V] : k \in 0 .. MaxItems}}

\* the BTreeMap after the insertions q, in their order
RECURSIVE collect(_, _)
collect(q, d) ==
    IF q = << >> THEN d
    ELSE collect(Tail(q), insert(d, Head(q).k, Head(q).v))

Dicts(V) ==
    LET Entries == {[k |-> key, v |-> value] : key \in CodecKeys, value \in V}
    IN  {BDict(collect(q, {})) :
           q \in UNION {[1 .. k -> Entries] : k \in 0 .. MaxItems}}

NestedSample ==
    {BList(<< >>), BList(<<BNumber(7)>>), BDict({}),
     BDict({[k |-> <<97>>, v |-> BNumber(-1)]})}

CodecValues ==
    Leaves \cup Lists(Leaves) \cup Dicts(SmallLeaves)
        \cup Lists(SmallLeaves \cup NestedSample) \cup Dicts(NestedSample)

\* 'i', 'l', 'd', 'e', ':', '1', '2', '-', 'a' and a byte that is not UTF-8
InputBytes ==
    {b_i, b_l, b_d, b_e, b_colon, b_0 + 1, b_0 + 2, b_minus, 97, 255}

\* d3:fooi42e3:bar5:thinge (keys not in order) and di1ei2ee (a number as key)
TestVectors ==
    {<<100, 51, 58, 102, 111, 111, 105, 52, 50, 101, 51, 58, 98, 97, 114,
       53, 58, 116, 104, 105, 110, 103, 101>>,
     <<100, 105, 49, 101, 105, 50, 101, 101>>}

\* every input up to MaxInputLen bytes, every truncation of an encoding, and
\* the test vectors
DecodeInputs ==
    ByteStrings(InputBytes, MaxInputLen)
        \cup UNION {{SubSeq(encode(v), 1, k) : k \in 0 .. Len(encode(v))} :
                      v \in CodecValues}
        \cup TestVectors

\* the step is the call op of the codec
CodecCall(op) ==
    /\ last' = Call(op, NoSession, NoIndex, NoBitfield, NoData, "Ok")
    /\ LedgerIdle
    /\ wire' = NoWire
    /\ UNCHANGED <<peers, session_vars, handler_pc, upload, swarm, stats,
                   pool, pipeline, tracker>>

\* Bencode::encode(v), then Bencode::decode of the bytes
encode_decode(v) ==
    /\ codec = NoCodecCall
    /\ LET bytes == encode(v)
       IN  codec' = [NoCodecCall EXCEPT !.op = "encode_decode", !.v = v,
                                        !.bytes = bytes, !.data = bytes,
                                        !.out = decode(bytes)]
    /\ CodecCall("encode_decode")

\* Bencode::decode(data), then Bencode::encode of the value when there is one
decode_encode(data) ==
    /\ codec = NoCodecCall
    /\ LET out == decode(data)
       IN  codec' = [NoCodecCall EXCEPT
                       !.op = "decode_encode", !.v = out.v,
                       !.bytes = IF out.r = "ok" THEN encode(out.v) ELSE << >>,
                       !.data = data, !.out = out]
    /\ CodecCall("decode_encode")

\* "peer_id", "peer id", "ip" and "port"
key_peer_id_tracker == <<112, 101, 101, 114, 95, 105, 100>>
key_peer_id == <<112, 101, 101, 114, 32, 105, 100>>
key_ip == <<105, 112>>
key_port == <<112, 111, 114, 116>>

\* tracker_peer::Peer, the fields that go into the announce response
TrackerPeerIds ==
    {[k \in 1 .. HashLen |-> 65], [k \in 1 .. HashLen |-> IF k = 1 THEN 255 ELSE 0]}

\* "1.2" and "::1"
TrackerPeerIps == {<<49, 46, 50>>, <<58, 58, 49>>}

\* u16
TrackerPeerPorts == {0, 80, 6881, 65535}

TrackerPeers ==
    {[id |-> id, ip |-> ip, port |-> port] :
       id \in TrackerPeerIds, ip \in TrackerPeerIps, port \in TrackerPeerPorts}

\* impl ToBencode for Peer
Peer_to_bencode(p) ==
    BDict(insert(insert(insert({}, key_peer_id_tracker, BString(p.id)),
                        key_ip, BString(p.ip)),
                 key_port, BNumber(p.port)))

\* impl ToBencode for Vec<T>
RECURSIVE Vec_to_bencode_items(_)
Vec_to_bencode_items(ps) ==
    IF ps = << >> THEN << >>
    ELSE <<Peer_to_bencode(Head(ps))>> \o Vec_to_bencode_items(Tail(ps))

Vec_to_bencode(ps) == BList(Vec_to_bencode_items(ps))

BtPeerOk(peer_id, ip, port) ==
    [r |-> "ok", peer_id |-> peer_id, ip |-> ip, port |-> port]
BtPeerErr(kind) == [r |-> kind, peer_id |-> << >>, ip |-> << >>, port |-> 0]

\* the loop of BtPeer::from over the entries of the dictionary, in key order
RECURSIVE BtPeer_from_entries(_, _)
BtPeer_from_entries(d, acc) ==
    IF d = {} THEN acc
    ELSE LET x == first_key(d)
             rest == d \ {x}
         IN  IF x.k = key_peer_id
             THEN IF x.v.t # "BString" THEN BtPeerErr("InvalidPeerId")
                  ELSE BtPeer_from_entries(rest, [acc EXCEPT !.peer_id = x.v.s])
             ELSE IF x.k = key_ip
             THEN IF x.v.t # "BString" \/ ~from_utf8_ok(x.v.s)
                  THEN BtPeerErr("InvalidIp")
                  ELSE BtPeer_from_entries(rest, [acc EXCEPT !.ip = x.v.s])
             ELSE IF x.k = key_port
             THEN IF x.v.t # "BNumber" THEN BtPeerErr("InvalidPort")
                  ELSE BtPeer_from_entries(rest, [acc EXCEPT !.port = x.v.n])
             ELSE BtPeer_from_entries(rest, acc)

\* BtPeer::from: peer_id, ip and port start empty, empty and 0
BtPeer_from(bencode) ==
    IF bencode.t # "BDict" THEN BtPeerErr("NotADict")
    ELSE BtPeer_from_entries(bencode.d, BtPeerOk(<< >>, << >>, 0))

\* TrackerResponse::create_peers_from_dict
RECURSIVE create_peers_from_dict(_, _)
create_peers_from_dict(list, bt_peers) ==
    IF list = << >> THEN [r |-> "ok", peers |-> bt_peers]
    ELSE LET p == BtPeer_from(Head(list))
         IN  IF p.r # "ok" THEN [r |-> "InvalidPeers", peers |-> << >>]
             ELSE create_peers_from_dict(Tail(list), Append(bt_peers, p))

\* the tracker bencodes the peers of an announce response in dictionary
\* form; the client decodes the bytes and builds its peers from the list
peers_round_trip(ps) ==
    /\ codec = NoCodecCall
    /\ LET bytes == encode(Vec_to_bencode(ps))
           out == decode(bytes)
       IN  codec' = [NoCodecCall EXCEPT
                       !.op = "peers", !.v = Vec_to_bencode(ps),
                       !.bytes = bytes, !.data = bytes, !.out = out,
                       !.peers = ps,
                       !.bt_peers =
                           IF out.r = "ok" /\ out.v.t = "BList"
                           THEN create_peers_from_dict(out.v.l, << >>)
                           ELSE [r |-> "NotAList", peers |-> << >>]]
    /\ CodecCall("peers")

BencodeNext ==
    \/ \E v \in CodecValues : encode_decode(v)
    \/ \E data \in DecodeInputs : decode_encode(data)
    \/ \E ps \in UNION {[1 .. k -> TrackerPeers] : k \in 1 .. MaxItems} :
         peers_round_trip(ps)

BencodeSpec == Init /\ [][BencodeNext]_vars

(***************************************************************************)
(* OffsetSpec: the byte offsets handed to the block store, in u32          *)
(* arithmetic.  An overflowing u32 operation panics in a build with        *)
(* overflow checks and wraps in a build without.                           *)
(***************************************************************************)
U32Modulus == 2 ^ U32Bits

\* x as u32, for an i64 that is not negative
as_u32(x) == x % U32Modulus

OffsetOk(n) == [panicked |-> FALSE, offset |-> n]
OffsetPanic == [panicked |-> TRUE, offset |-> 0]

\* the outcomes of an u32 operation whose exact result is n
u32_result(n) ==
    IF n < U32Modulus THEN {OffsetOk(n)}
    ELSE {OffsetPanic, OffsetOk(n % U32Modulus)}

\* piece_downloaded, line 321: (index * info.piece_length as u32) as u64
save_piece_offset(index, info_piece_length) ==
    u32_result(index * as_u32(info_piece_length))

\* handle_request, line 576: index * self.torrent.piece_length() + begin,
\* then offset as u64 in the call of get_piece
request_offset(index, info_piece_length, begin) ==
    UNION {IF product.panicked THEN {OffsetPanic}
           ELSE u32_result(product.offset + begin) :
              product \in u32_result(index * as_u32(info_piece_length))}

\* info.piece_length of the torrents: a quarter and a half of the u32 range
\* and one that does not fit in u32
OffsetPieceLengths ==
    {2 ^ (U32Bits - 3), 2 ^ (U32Bits - 2), U32Modulus + (2 ^ (U32Bits - 3))}

\* begin of a request: the first three blocks of a piece
OffsetBegins == {0, 2 ^ (U32Bits - 5), 2 ^ (U32Bits - 4)}

OffsetCall(op, index, info_piece_length, begin, result) ==
    /\ last' = Call(op, NoSession, index, NoBitfield,
                    <<info_piece_length, begin>>, result)
    /\ LedgerIdle
    /\ wire' = NoWire
    /\ UNCHANGED <<peers, session_vars, handler_pc, aux>>

\* piece_downloaded persists piece index of a torrent
persist_piece ==
    \E index \in 0 .. (MaxOffsetPieces - 1),
       info_piece_length \in OffsetPieceLengths :
      \E result \in save_piece_offset(index, info_piece_length) :
        OffsetCall("save_piece", index, info_piece_length, 0, result)

\* handle_request serves a block of piece index
serve_request ==
    \E index \in 0 .. (MaxOffsetPieces - 1),
       info_piece_length \in OffsetPieceLengths, begin \in OffsetBegins :
      \E result \in request_offset(index, info_piece_length, begin) :
        OffsetCall("handle_request", index, info_piece_length, begin, result)

OffsetNext ==
    \/ persist_piece
    \/ serve_request

OffsetSpec == Init /\ [][OffsetNext]_vars

(***************************************************************************)
(* PipelineSpec: one download session, block by block: the torrent's sizes *)
(* in bytes, the windows of requests, the messages of the remote one at a  *)
(* time                                                                    *)
(***************************************************************************)
HalfBlock == BLOCK_SIZE \div 2

PipelineTorrents ==
    {[length |-> l * HalfBlock, piece_length |-> p * HalfBlock] :
       l \in 1 .. MaxLengthHalfBlocks, p \in 1 .. MaxPieceHalfBlocks}

\* Torrent::total_pieces: the ceiling of length / piece_length
Torrent_total_pieces ==
    (pl_torrent.length + pl_torrent.piece_length - 1)
        \div pl_torrent.piece_length

Torrent_last_piece_size == pl_torrent.length % pl_torrent.piece_length

\* the bytes of piece i in the file
PieceSize(i) ==
    IF i = Torrent_total_pieces - 1
    THEN pl_torrent.length - (i * pl_torrent.piece_length)
    ELSE pl_torrent.piece_length

complete_blocks_in_torrent_piece(piece_index) ==
    LET last_piece_index == Torrent_total_pieces - 1
    IN  IF piece_index # last_piece_index
        THEN pl_torrent.piece_length \div BLOCK_SIZE
        ELSE IF Torrent_last_piece_size = 0
        THEN pl_torrent.piece_length \div BLOCK_SIZE
        ELSE Torrent_last_piece_size \div BLOCK_SIZE

\* download_with_pipeline: the requests of the next window
window(remaining_blocks) ==
    IF remaining_blocks % pl_pipelining_size = 0
    THEN pl_pipelining_size
    ELSE remaining_blocks

RequestOf(begin, length) == [begin |-> begin, length |-> length]

\* download_piece of piece_index with done full blocks received, up to its
\* next read: the next window of download_with_pipeline, or the request of
\* check_last_piece_block, or nothing more to read. (is_finished is false
\* while the piece of this session is Downloading: no cancel is sent.)
next_requests(piece_index, done) ==
    LET entire_blocks_in_piece == complete_blocks_in_torrent_piece(piece_index)
        last_block_size == Torrent_last_piece_size % BLOCK_SIZE
        last_piece_index == Torrent_total_pieces - 1
    IN  IF done < entire_blocks_in_piece
        THEN LET n == window(entire_blocks_in_piece - done)
             IN  [pc |-> "await", n |-> n,
                  sent |-> [block \in 1 .. n |->
                              RequestOf(((block - 1) + done) * BLOCK_SIZE,
                                        BLOCK_SIZE)]]
        ELSE IF last_block_size # 0 /\ piece_index = last_piece_index
        THEN [pc |-> "await_last", n |-> 1,
              sent |-> <<RequestOf(entire_blocks_in_piece * BLOCK_SIZE,
                                   last_block_size)>>]
        ELSE [pc |-> "validate", n |-> 0, sent |-> << >>]

\* the step is the call op of the session
PipelineCall(op, index) ==
    /\ last' = Call(op, 1, index, NoBitfield, NoData, "Ok")
    /\ LedgerIdle
    /\ UNCHANGED <<peers, session_vars, handler_pc, upload, swarm, stats, pool,
                   codec, tracker>>

PeerSession_new(torrent, pipelining_size) ==
    /\ pl_pc = "new"
    /\ pl_pc' = "read"
    /\ pl_torrent' = torrent
    /\ pl_pipelining_size' = pipelining_size
    /\ wire' = NoWire
    /\ UNCHANGED <<pl_finished, pl_current_piece, pl_piece_len,
                   blocks_downloaded, blocks_to_download,
                   current_blocks_downloaded, pl_choked, pl_interested,
                   pl_requests, pl_interested_sent>>
    /\ PipelineCall("new", NoIndex)

\* handle_message, for the status of the session
ChokedBy(m) ==
    IF m = "Choke" THEN TRUE ELSE IF m = "Unchoke" THEN FALSE ELSE pl_choked

\* download_piece goes on for piece_index with done blocks and bytes bytes
\* of the piece received, log being the requests sent for it so far, after a
\* message that left the session choked or not; it runs to the next read, or
\* through validate_piece to the end of download_piece
continue_piece(piece_index, done, bytes, log, now_choked) ==
    LET w == next_requests(piece_index, done)
    IN  /\ pl_current_piece' = piece_index
        /\ blocks_downloaded' = done
        /\ pl_piece_len' = bytes
        /\ pl_choked' = now_choked
        /\ pl_requests' = log \o w.sent
        /\ wire' = IF w.sent = << >> THEN NoWire
                   ELSE Wire(1, [k \in 1 .. Len(w.sent) |-> "Request"])
        /\ blocks_to_download' = w.n
        /\ current_blocks_downloaded' = 0
        /\ UNCHANGED <<pl_torrent, pl_pipelining_size, pl_interested,
                       pl_interested_sent>>
        /\ IF w.pc # "validate"
           THEN /\ pl_pc' = w.pc
                /\ UNCHANGED pl_finished
                /\ PipelineCall("request", piece_index)
           ELSE IF bytes = PieceSize(piece_index)
           \* validate_piece passes on the whole piece; piece_downloaded;
           \* request_pieces returns when choked, else it selects again
           THEN /\ pl_finished' = pl_finished \cup {piece_index}
                /\ pl_pc' = IF now_choked THEN "read" ELSE "select"
                /\ PipelineCall("piece_downloaded", piece_index)
           \* PieceHashDoesNotMatch: piece_aborted, and the session ends
           ELSE /\ pl_pc' = "end"
                /\ UNCHANGED pl_finished
                /\ PipelineCall("piece_aborted", piece_index)

\* the session leaves the state of the download alone
PipelineKeeps ==
    UNCHANGED <<pl_torrent, pl_pipelining_size, pl_finished, pl_current_piece,
                pl_piece_len, blocks_downloaded, blocks_to_download,
                current_blocks_downloaded, pl_requests>>

\* start_outgoing_seeder_wrap: one turn of its loop
start_outgoing_seeder(m) ==
    /\ pl_pc = "read"
    /\ LET now_choked == ChokedBy(m)
           send_interested == now_choked /\ ~pl_interested
           now_interested == pl_interested \/ send_interested
       IN  /\ pl_choked' = now_choked
           /\ pl_interested' = now_interested
           /\ pl_interested_sent' =
                  IF send_interested THEN pl_interested_sent + 1
                  ELSE pl_interested_sent
           /\ wire' = IF send_interested THEN Wire(1, <<"Interested">>)
                      ELSE NoWire
           /\ pl_pc' = IF ~now_choked /\ now_interested THEN "select"
                       ELSE "read"
    /\ PipelineKeeps
    /\ PipelineCall("read", NoIndex)

\* request_pieces: select_piece returns a piece that is not downloaded yet,
\* or None
pipeline_select_piece ==
    /\ pl_pc = "select"
    /\ LET free == (0 .. (Torrent_total_pieces - 1)) \ pl_finished
       IN  IF free = {}
           THEN /\ pl_pc' = "end"
                /\ wire' = NoWire
                /\ PipelineKeeps
                /\ UNCHANGED <<pl_choked, pl_interested, pl_interested_sent>>
                /\ PipelineCall("select_piece", NoIndex)
           ELSE \E piece_index \in free :
                  continue_piece(piece_index, 0, 0, << >>, pl_choked)

\* download_with_pipeline waits for the pieces of its window: one message;
\* update_peer_status, after the last piece of the window, can fail
await_piece(m, status_ok) ==
    /\ pl_pc = "await"
    /\ (m # "Piece" \/ current_blocks_downloaded + 1 < blocks_to_download)
           => status_ok
    /\ IF m # "Piece"
       THEN /\ pl_choked' = ChokedBy(m)
            /\ wire' = NoWire
            /\ PipelineKeeps
            /\ UNCHANGED <<pl_pc, pl_interested, pl_interested_sent>>
            /\ PipelineCall("read", pl_current_piece)
       ELSE IF current_blocks_downloaded + 1 < blocks_to_download
       THEN /\ current_blocks_downloaded' = current_blocks_downloaded + 1
            /\ blocks_downloaded' = blocks_downloaded + 1
            /\ pl_piece_len' = pl_piece_len + BLOCK_SIZE
            /\ wire' = NoWire
            /\ UNCHANGED <<pl_pc, pl_torrent, pl_pipelining_size, pl_finished,
                           pl_current_piece, blocks_to_download, pl_choked,
                           pl_interested, pl_requests, pl_interested_sent>>
            /\ PipelineCall("read", pl_current_piece)
       ELSE IF status_ok
       THEN continue_piece(pl_current_piece, blocks_downloaded + 1,
                           pl_piece_len + BLOCK_SIZE, pl_requests, pl_choked)
       \* ErrorGettingSessionsStatus: piece_aborted, and the session ends
       ELSE /\ current_blocks_downloaded' = current_blocks_downloaded + 1
            /\ blocks_downloaded' = blocks_downloaded + 1
            /\ pl_piece_len' = pl_piece_len + BLOCK_SIZE
            /\ pl_pc' = "end"
            /\ wire' = NoWire
            /\ UNCHANGED <<pl_torrent, pl_pipelining_size, pl_finished,
                           pl_current_piece, blocks_to_download, pl_choked,
                           pl_interested, pl_requests, pl_interested_sent>>
            /\ PipelineCall("status_error", pl_current_piece)

\* check_last_piece_block waits for the piece of its request: one message
await_last_block(m) ==
    /\ pl_pc = "await_last"
    /\ IF m # "Piece"
       THEN /\ pl_choked' = ChokedBy(m)
            /\ wire' = NoWire
            /\ PipelineKeeps
            /\ UNCHANGED <<pl_pc, pl_interested, pl_interested_sent>>
            /\ PipelineCall("read", pl_current_piece)
       ELSE LET bytes == pl_piece_len + (Torrent_last_piece_size % BLOCK_SIZE)
            IN  /\ UNCHANGED <<pl_torrent, pl_pipelining_size, pl_current_piece,
                               blocks_downloaded, blocks_to_download,
                               current_blocks_downloaded, pl_choked,
                               pl_interested, pl_requests, pl_interested_sent>>
                /\ pl_piece_len' = bytes
                /\ wire' = NoWire
                /\ IF bytes = PieceSize(pl_current_piece)
                   THEN /\ pl_finished' = pl_finished \cup {pl_current_piece}
                        /\ pl_pc' = IF pl_choked THEN "read" ELSE "select"
                        /\ PipelineCall("piece_downloaded", pl_current_piece)
                   ELSE /\ pl_pc' = "end"
                        /\ UNCHANGED pl_finished
                        /\ PipelineCall("piece_aborted", pl_current_piece)

\* read_message_from_stream fails: the session ends
pipeline_stream_error ==
    /\ pl_pc \in {"read", "await", "await_last"}
    /\ pl_pc' = "end"
    /\ wire' = NoWire
    /\ PipelineKeeps
    /\ UNCHANGED <<pl_choked, pl_interested, pl_interested_sent>>
    /\ PipelineCall("stream_error", NoIndex)

\* what the remote sends to a download session, a piece only in answer to a
\* request
RemoteMessages == {"Choke", "Unchoke", "Have", "Piece"}

PipelineNext ==
    \/ \E torrent \in PipelineTorrents,
          pipelining_size \in 1 .. MaxPipeliningSize :
         PeerSession_new(torrent, pipelining_size)
    \/ \E m \in RemoteMessages \ {"Piece"} : start_outgoing_seeder(m)
    \/ pipeline_select_piece
    \/ \E m \in RemoteMessages, status_ok \in BOOLEAN : await_piece(m, status_ok)
    \/ \E m \in RemoteMessages : await_last_block(m)
    \/ pipeline_stream_error

PipelineSpec == Init /\ [][PipelineNext]_vars
(***************************************************************************)
(* Properties                                                              *)
(***************************************************************************)
\* the remote bitfield bf has piece i: piece 0 is the most significant bit
\* of byte 0
RemoteHas(bf, i) ==
    /\ (i \div 8) < Len(bf)
    /\ ((bf[(i \div 8) + 1] \div (2 ^ (7 - (i % 8)))) % 2) = 1

\* the hash the torrent gives for piece i
TorrentHash(i) == SubSeq(info_pieces, (i * HashLen) + 1, (i + 1) * HashLen)

SomeFree == \E i \in Pieces : pieces_status[i] = "Free"
SomeDownloading == \E i \in Pieces : pieces_status[i] = "Downloading"
FinishedCount == Cardinality({i \in Pieces : pieces_status[i] = "Finished"})
Holding(s) == pc[s] \in {"download", "downloaded", "saving", "abort"}

\* C1: after any sequence of select_piece, piece_downloaded and piece_aborted
\* calls (endgame selections included) free + downloading + finished equals
\* total_pieces and no tally has wrapped below zero.
C1_TalliesSumToTotal ==
    /\ free_pieces + downloading_pieces + finished_pieces = total_pieces
    /\ free_pieces <= total_pieces
    /\ downloading_pieces <= total_pieces
    /\ finished_pieces <= total_pieces

\* C2: while a Free piece exists, select_piece never returns an index it has
\* already returned, unless that piece was aborted in between.
C2_ConcurrentClaimsDistinct ==
    [][(last'.op = "select_piece" /\ last'.ret = "Some" /\ SomeFree)
         => ~returned[last'.index]]_vars

C2_Witness ==
    \E s, t \in Sessions :
        /\ pc[s] = "download"
        /\ pc[t] = "download"
        /\ current_piece[s] # current_piece[t]

\* C3 (as claimed): when a Free piece that the remote bitfield has exists,
\* select_piece returns the smallest such index and moves exactly that piece
\* to Downloading.
C3_ReturnsSmallestFreeIndex ==
    [][(/\ last'.op = "select_piece"
        /\ ~lock_poisoned
        /\ \E i \in Pieces : pieces_status[i] = "Free" /\ RemoteHas(last'.bf, i))
         => /\ last'.ret = "Some"
            /\ pieces_status[last'.index] = "Free"
            /\ RemoteHas(last'.bf, last'.index)
            /\ \A j \in Pieces :
                 (pieces_status[j] = "Free" /\ RemoteHas(last'.bf, j))
                    => last'.index <= j]_vars

\* C3 (amended): when a Free piece exists and select_piece returns an index,
\* the index is some Free piece that the remote bitfield has, not necessarily
\* the smallest, and exactly that piece moves to Downloading (free minus one,
\* downloading plus one); when it returns None no Free piece is in the
\* bitfield and nothing changes.
C3_ReturnsSomeFreeIndexOfBitfield ==
    [][(last'.op = "select_piece" /\ SomeFree)
         => /\ (last'.ret = "Some")
                 => /\ pieces_status[last'.index] = "Free"
                    /\ RemoteHas(last'.bf, last'.index)
                    /\ pieces_status' =
                         [pieces_status EXCEPT ![last'.index] = "Downloading"]
                    /\ free_pieces' = (free_pieces - 1) % UsizeModulus
                    /\ downloading_pieces' = (downloading_pieces + 1) % UsizeModulus
                    /\ finished_pieces' = finished_pieces
            /\ (last'.ret = "None")
                 => /\ \A i \in Pieces :
                         pieces_status[i] = "Free" => ~RemoteHas(last'.bf, i)
                    /\ UNCHANGED ledger]_vars

C3_Witness ==
    /\ last.op = "select_piece"
    /\ last.ret = "Some"
    /\ last.index # 0
    /\ pieces_status[0] = "Free"
    /\ RemoteHas(last.bf, 0)

\* C4: when no piece is Free, select_piece returns a Downloading piece (None
\* when there is none) and leaves the piece map and the three tallies
\* unchanged.
C4_EndgameSelectChangesNothing ==
    [][(last'.op = "select_piece" /\ ~lock_poisoned /\ ~SomeFree)
         => /\ UNCHANGED ledger
            /\ SomeDownloading
                 => (last'.ret = "Some"
                       /\ pieces_status[last'.index] = "Downloading")
            /\ (~SomeDownloading) => last'.ret = "None"]_vars

\* C5: piece_downloaded(i, bytes) and piece_aborted(i) on a piece that is not
\* Downloading return an error and leave the piece map, the tallies and the
\* store unchanged: InvalidPieceIndex outside the map, PieceWasNotDownloading
\* inside it (PoisonedPiecesStatusLock when the lock cannot be taken).
C5_RejectedUnlessDownloading ==
    [][(/\ last'.op \in {"piece_downloaded", "piece_aborted"}
        /\ ~(last'.index \in Pieces /\ pieces_status[last'.index] = "Downloading"))
         => /\ UNCHANGED <<ledger, file>>
            /\ last'.ret =
                 IF lock_poisoned THEN "PoisonedPiecesStatusLock"
                 ELSE IF last'.index \notin Pieces THEN "InvalidPieceIndex"
                 ELSE "PieceWasNotDownloading"]_vars

C5_Witness ==
    /\ last.op = "piece_downloaded"
    /\ last.ret = "PieceWasNotDownloading"
    /\ pieces_status[last.index] = "Finished"
    /\ file[last.index] # NoData

\* C6: a piece_downloaded whose save fails returns SavePieceError and leaves
\* the ledger as it was: the piece is still Downloading and the tallies keep
\* their values.
C6_SaveFailureLeavesLedger ==
    [][(last'.op = "piece_downloaded" /\ last'.ret = "SavePieceError")
         => /\ UNCHANGED <<ledger, file>>
            /\ pieces_status'[last'.index] = "Downloading"]_vars

C6_Witness ==
    /\ last.op = "piece_downloaded"
    /\ last.ret = "SavePieceError"
    /\ pieces_status[last.index] = "Downloading"

\* a Finished piece holds persisted bytes whose hash is the torrent's, and a
\* session that is about to call piece_downloaded holds such bytes
FinishedOnlyIfHashMatches ==
    /\ \A i \in Pieces :
         pieces_status[i] = "Finished"
            => (file[i] # NoData /\ Sha1(file[i]) = TorrentHash(i))
    /\ \A s \in Sessions :
         pc[s] = "downloaded" => Sha1(piece[s]) = TorrentHash(current_piece[s])

C8_ClaimReleasedWhenSessionEnds ==
    /\ (\A s \in Sessions : pc[s] # "panicked")
         => \A i \in Pieces :
              pieces_status[i] = "Downloading"
                 => \E s \in Sessions : Holding(s) /\ current_piece[s] = i
    /\ \A s \in Sessions :
         pc[s] = "ended" => disconnects[s] = 1

\* C9: whatever makes one session fail, the ledger stays usable: no
\* select_piece, piece_downloaded or piece_aborted of another session is
\* refused with PoisonedPiecesStatusLock.
C9_LedgerUsableAfterSessionFailure ==
    last.ret # "PoisonedPiecesStatusLock"

\* C10: is_finished() holds exactly when every piece of the map is Finished;
\* each successful piece_downloaded finishes one more piece, so is_finished()
\* is false after fewer than total_pieces completions and true on the last.
C10_IsFinishedIffAllFinished ==
    /\ [](/\ is_finished <=> (\A i \in Pieces : pieces_status[i] = "Finished")
          /\ finished_pieces = FinishedCount)
    /\ [][(last'.op = "piece_downloaded" /\ last'.ret = "Ok")
            => /\ ~is_finished
               /\ finished_pieces' = finished_pieces + 1
               /\ is_finished' <=> (finished_pieces = total_pieces - 1)]_vars

C10_Witness ==
    /\ is_finished
    /\ last.op = "piece_downloaded"
    /\ last.ret = "Ok"


\* the step wrote a message of this kind to the stream of a session
Sent(w, kind) == \E k \in 1 .. Len(w.msgs) : w.msgs[k] = kind

C12_AllPeersWithinCap == all_current_peers <= max_peers_per_torrent

\* C13: current_peers is at most all_current_peers in every state, and no
\* decrement of either counter starts from zero.
C13_ConnectedAtMostAll ==
    /\ [](current_peers <= all_current_peers)
    /\ [][/\ (current_peers' = fetch_sub(current_peers)) => current_peers > 0
          /\ (all_current_peers' = fetch_sub(all_current_peers))
                => all_current_peers > 0]_vars

\* a failed spawn has taken the count of a session that is still connected
C13_Witness ==
    /\ current_peers = 0
    /\ all_current_peers > 0
    /\ \E s \in Sessions : pc[s] = "loop"

\* C14: a session that has to notify the orchestrator is never held up: the
\* channel has room, or the receiver is gone, and the orchestrator is never
\* stuck in its own send.
C14_NotifyNeverBlocks ==
    /\ handler_pc # "blocked"
    /\ \A s \in Sessions :
         pc[s] = "notify"
            => (channel < ChannelCapacity \/ handler_pc = "returned")

WaitsForPiecesLock(t) == pc[t] \in {"select", "downloaded", "abort", "upload"}

\* C15: while the write of save_piece of one session is in progress no
\* other session waits for the piece-map lock.
C15_NoLockHeldAcrossIO ==
    \A s, t \in Sessions :
        (pc[s] = "saving" /\ t # s) => ~WaitsForPiecesLock(t)

\* C16: when the orchestrator starts a session to a peer, no other outgoing
\* session to that peer is connecting or connected.
C16_OneSessionPerPeer ==
    [][\A s \in Sessions :
         (pc[s] = "new" /\ pc'[s] = "setup")
            => \A t \in Sessions \ {s} :
                 ~(pc[t] \in {"setup", "loop"} /\ peer[t] = peer'[s])]_vars

\* C17: a session gets past the handshake only if the remote handshake has
\* pstrlen 19, the protocol string and the info hash of the torrent.
C17_HandshakeChecked ==
    [][\A s \in Sessions :
         (\/ pc[s] = "setup" /\ pc'[s] = "loop"
          \/ pc[s] = "new" /\ pc'[s] = "accepted")
            => /\ last'.op = "receive_handshake"
               /\ last'.caller = s
               /\ from_bytes(last'.data).pstrlen = PstrLen
               /\ from_bytes(last'.data).pstr = PSTR
               /\ from_bytes(last'.data).info_hash = info_hash]_vars

\* C18: a session sends interested, unchoke, request, have or piece only
\* after it has sent its bitfield.
C18_BitfieldFirst ==
    [][\A s \in Sessions :
         (wire'.from = s
            /\ \E kind \in {"Interested", "Unchoke", "Request", "Have", "Piece"} :
                 Sent(wire', kind))
            => sent_bitfield[s]]_vars

\* C19: an upload session that waits for interested sends no piece message,
\* and a not_interested it reads ends it with PeerNotInterested.
C19_NoPieceBeforeUnchoke ==
    [][\A s \in Sessions :
         (pc[s] = "wait_interested" /\ wire'.from = s)
            => ~Sent(wire', "Piece")]_vars

\* C20: seeders is the number of stored peers with left = 0 or event
\* completed, leechers the number of the other stored peers.
C20_CountersMatchRoles ==
    /\ seeders = Cardinality({k \in DOMAIN swarm_peers :
                                 is_seeder(swarm_peers[k])})
    /\ leechers = Cardinality({k \in DOMAIN swarm_peers :
                                  ~is_seeder(swarm_peers[k])})

\* C21: remove_inactive_peers removes exactly the peers whose last_seen is
\* older than the timeout, leaves the others as they were, and takes one from
\* the counter of the role of each removed peer (seeder: left = 0 or event
\* completed; leecher otherwise).
C21_EvictionExactAndCounted ==
    [][last'.op = "remove_inactive_peers"
         => LET gone == {k \in DOMAIN swarm_peers : inactive(swarm_peers[k])}
            IN  /\ DOMAIN swarm_peers' = DOMAIN swarm_peers \ gone
                /\ \A k \in DOMAIN swarm_peers' :
                     swarm_peers'[k] = swarm_peers[k]
                /\ seeders' = seeders
                     - Cardinality({k \in gone : is_seeder(swarm_peers[k])})
                /\ leechers' = leechers
                     - Cardinality({k \in gone : ~is_seeder(swarm_peers[k])})]_vars

\* C22: a cycle of the stats updater that starts with length * bucket size
\* over 30 days removes exactly the oldest snapshot and keeps the order of the
\* others before it appends the new one; any other cycle only appends; and the
\* history is never longer than floor(30 days / bucket size) + 1.
C22_HistoryBounded ==
    /\ [](duration # 0
            => Len(stats_history) <= (max_secs_to_keep_stats \div duration) + 1)
    /\ [][last'.op = "run"
            => LET n == Len(stats_history)
                   taken == CurrentTrackerStats_new(torrent_swarms', seeders',
                                                    leechers')
               IN  IF duration * n > max_secs_to_keep_stats
                   THEN /\ Len(stats_history') = n
                        /\ \A i \in 1 .. (n - 1) :
                             stats_history'[i] = stats_history[i + 1]
                        /\ stats_history'[n] = taken
                   ELSE stats_history' = Append(stats_history, taken)]_vars

\* a cycle that started with a full history of three snapshots, of which the
\* oldest differed from the next, has run
C22_Witness ==
    /\ last.op = "run"
    /\ duration * last.index > max_secs_to_keep_stats
    /\ last.index = 3
    /\ Len(stats_history) = 3
    /\ stats_history[1] # stats_history[2]
    /\ stats_history[2] # stats_history[3]

\* C23: while a worker is executing a job and a job is next in the queue, an
\* idle worker can take it: the receiver is not locked against it.
C23_IdleWorkerCanTakeJob ==
    \A w, v \in Workers :
        (/\ worker_pc[w] = "job"
         /\ worker_pc[v] = "idle"
         /\ pool_queue # << >>
         /\ Head(pool_queue) = "NewJob")
            => receiver_lock = NoWorker

\* C24: drop sends one Terminate per worker, and a worker that receives a
\* Terminate exits.
C24_DropTerminates ==
    [][/\ last'.op = "drop"
            => pool_queue' = pool_queue \o [k \in 1 .. NumWorkers |-> "Terminate"]
       /\ last'.op = "recv_terminate"
            => worker_pc'[last'.caller] = "exited"]_vars

\* the keys of every dictionary of the well-formed encoding data are in
\* strictly ascending byte-wise order, as the decoder reads them
RECURSIVE OrderOk(_)
RECURSIVE EntriesOrderOk(_, _, _, _)
RECURSIVE ItemsOrderOk(_, _)
EntriesOrderOk(data, i, prev, first) ==
    IF data[i + 1] = b_e THEN TRUE
    ELSE LET key == do_decode(slice_from(data, i))
             j == i + key.size
             value == do_decode(slice_from(data, j))
         IN  /\ key.v.t = "BString"
             /\ first \/ bytes_less(prev, key.v.s)
             /\ OrderOk(SubSeq(data, j + 1, j + value.size))
             /\ EntriesOrderOk(data, j + value.size, key.v.s, FALSE)

ItemsOrderOk(data, i) ==
    IF data[i + 1] = b_e THEN TRUE
    ELSE LET value == do_decode(slice_from(data, i))
         IN  /\ OrderOk(SubSeq(data, i + 1, i + value.size))
             /\ ItemsOrderOk(data, i + value.size)

OrderOk(data) ==
    CASE data[1] = b_d -> EntriesOrderOk(data, 1, << >>, TRUE)
      [] data[1] = b_l -> ItemsOrderOk(data, 1)
      [] OTHER -> TRUE

\* C25: decode(encode(v)) = v for every value v, and every encoding, of a
\* value built by insertions in any order or of a value that was decoded, has
\* the keys of each of its dictionaries in ascending byte-wise order.
C25_RoundTripAndSortedKeys ==
    /\ codec.op = "encode_decode"
         => /\ codec.out = DecodeOk(codec.v, 0)
            /\ OrderOk(codec.bytes)
    /\ (codec.op = "decode_encode" /\ codec.out.r = "ok")
         => /\ OrderOk(codec.bytes)
            /\ decode(codec.bytes) = codec.out

\* a dictionary of two keys, one a prefix of the other, holding a list, went
\* round
C25_Witness ==
    /\ codec.op = "encode_decode"
    /\ codec.v.t = "BDict"
    /\ \E x, y \in codec.v.d :
         /\ x.k = <<97>>
         /\ y.k = <<97, b_e>>
         /\ x.v.t = "BList"
         /\ y.v.t = "BDict"
    /\ codec.out.r = "ok"

\* C26: decode returns a value or one of the BencodeError kinds for every
\* input, never aborts, and returns InvalidBencode for the empty input.
C26_DecodeNeverAborts ==
    codec.op = "decode_encode"
        => /\ codec.out.r \in {"ok", "err"}
           /\ codec.out.r = "err" => codec.out.kind \in BencodeErrors
           /\ codec.data = << >> => codec.out = DecodeErr("InvalidBencode")

\* C27: the client parses a peer list that the tracker emitted in dictionary
\* form into the same peers: the same number of peers, each with the peer
\* id, the ip and the port of the tracker's peer.
C27_PeerListRoundTrip ==
    codec.op = "peers"
        => /\ codec.bt_peers.r = "ok"
           /\ Len(codec.bt_peers.peers) = Len(codec.peers)
           /\ \A k \in 1 .. Len(codec.peers) :
                /\ codec.bt_peers.peers[k].peer_id = codec.peers[k].id
                /\ codec.bt_peers.peers[k].ip = codec.peers[k].ip
                /\ codec.bt_peers.peers[k].port = codec.peers[k].port

\* the requests of the download session that the remote has not answered yet
Outstanding ==
    IF pl_pc = "await" THEN blocks_to_download - current_blocks_downloaded
    ELSE IF pl_pc = "await_last" THEN 1
    ELSE 0

\* C28: a download session never has more than pipelining_size requests
\* outstanding, and no step sends more than pipelining_size requests.
C28_WindowWithinPipeliningSize ==
    pl_pc # "new"
        => /\ Outstanding <= pl_pipelining_size
           /\ Len(wire.msgs) <= pl_pipelining_size

RECURSIVE SumLengths(_)
SumLengths(requests) ==
    IF requests = << >> THEN 0
    ELSE Head(requests).length + SumLengths(Tail(requests))

\* C29: when the download of a piece is complete, the requests sent for it
\* have the offsets 0, BLOCK_SIZE, 2 * BLOCK_SIZE, ... in this order, and
\* their lengths add up to the size of the piece in the file.
C29_RequestsCoverPiece ==
    last.op \in {"piece_downloaded", "piece_aborted"}
        => /\ \A k \in 1 .. Len(pl_requests) :
                pl_requests[k].begin = (k - 1) * BLOCK_SIZE
           /\ SumLengths(pl_requests) = PieceSize(pl_current_piece)

\* C30: a step sends requests only when, after the message it has read, the
\* session is not choked and is interested; and the session sends interested
\* at most once.
C30_RequestsOnlyWhenUnchoked ==
    /\ [](pl_interested_sent <= 1)
    /\ [][Sent(wire', "Request") => (~pl_choked' /\ pl_interested')]_vars

\* C31: in an upload session, every have announces a Finished piece, no
\* index is announced twice in the session, and a cycle that completes its
\* update_bitfield announces, exactly once, every piece that is Finished
\* and was not in the bitfield the session knew.
C31_HaveAnnouncesNewlyFinished ==
    [][\A s \in Sessions :
         pc[s] = "upload"
            => LET old == Len(haves_sent[s])
                   all == haves_sent'[s]
               IN  /\ \A k \in (old + 1) .. Len(all) :
                         /\ all[k] \in Pieces
                         /\ pieces_status[all[k]] = "Finished"
                   /\ \A j, k \in 1 .. Len(all) : j # k => all[j] # all[k]
                   /\ (wire'.from = s /\ Sent(wire', "Bitfield"))
                         => \A i \in Pieces :
                              (pieces_status[i] = "Finished"
                                 /\ ~has_piece(status_bitfield[s], i))
                                 => Cardinality({k \in (old + 1) .. Len(all) :
                                                   all[k] = i}) = 1]_vars

\* a session that has announced one piece in an earlier cycle announces a
\* second one, finished since, along with its bitfield
C31_Witness ==
    \E s \in Sessions :
        /\ pc[s] = "upload"
        /\ Len(haves_sent[s]) = 2
        /\ wire.from = s
        /\ Cardinality({k \in 1 .. Len(wire.msgs) : wire.msgs[k] = "Have"}) = 1
        /\ Sent(wire, "Bitfield")

\* the orchestrator waits in recv: the cap is reached and no notification
\* is queued
BlockedInRecv ==
    /\ handler_pc = "check"
    /\ all_current_peers >= max_peers_per_torrent
    /\ channel = 0

\* C32: when the orchestrator waits in recv and a session is about to call
\* peer_disconnected, or is in the send of peer_disconnected or
\* peer_connecting_failed, the orchestrator eventually leaves recv; and
\* handle returns Ok only when is_finished() is true.
C32_BlockedOrchestratorResumes ==
    /\ \A s \in Sessions :
         (BlockedInRecv /\ pc[s] \in {"disconnect", "notify"})
            ~> ~BlockedInRecv
    /\ [][(handler_pc # "returned" /\ handler_pc' = "returned" /\ pc' = pc)
             => is_finished]_vars

\* C33: an announce records its peer in the swarm of its info hash and
\* leaves every other swarm as it was; while a thread is inside
\* incoming_peer or remove_inactive_peers no other thread changes the
\* registry; and incoming_peer returns the counters and a list of peers of
\* the swarm as its own announce left it, with the announced peer still
\* recorded.
C33_AnnouncesAtomic ==
    [][\A t \in TrackerThreads :
         /\ (tracker_pc[t] = "idle" /\ tracker_pc'[t] = "announced")
               => LET r == tracker_req'[t]
                  IN  /\ DOMAIN registry' = DOMAIN registry \cup {r.info_hash}
                      /\ r.peer.id \in DOMAIN registry'[r.info_hash].peers
                      /\ registry'[r.info_hash].peers[r.peer.id] = r.peer
                      /\ \A g \in DOMAIN registry \ {r.info_hash} :
                           registry'[g] = registry[g]
         /\ (tracker_pc[t] # "idle" /\ tracker_pc'[t] = tracker_pc[t]
               /\ tracker_req'[t] = tracker_req[t])
               => registry' = registry
         /\ (tracker_pc[t] = "announced" /\ tracker_pc'[t] = "idle")
               => LET r == tracker_req[t]
                      sw == registry[r.info_hash]
                      active == tracker_ret'.active
                  IN  /\ tracker_ret'.thread = t
                      /\ r.peer.id \in DOMAIN sw.peers
                      /\ sw.peers[r.peer.id] = r.peer
                      /\ active.seeders = sw.seeders
                      /\ active.leechers = sw.leechers
                      /\ active.leechers =
                           Cardinality({k \in DOMAIN sw.peers :
                                          is_leecher(sw.peers[k])})
                      /\ active.seeders + active.leechers =
                           Cardinality(DOMAIN sw.peers)
                      /\ \A k \in 1 .. Len(active.peers) :
                           /\ active.peers[k].id \in DOMAIN sw.peers
                           /\ sw.peers[active.peers[k].id] = active.peers[k]
      ]_vars

\* an announce returns two peers of its swarm while another swarm exists
C33_Witness ==
    /\ tracker_ret.thread # NoThread
    /\ Len(tracker_ret.active.peers) = 2
    /\ Cardinality(DOMAIN registry) = 2
    /\ \E h \in DOMAIN registry : h # tracker_ret.info_hash
                                     /\ DOMAIN registry[h].peers # {}

\* C34: the offset at which piece index is persisted is index * piece_length
\* and the offset from which a request is served is index * piece_length +
\* begin, whatever the size of the file.
C34_OffsetsExact ==
    /\ last.op = "save_piece"
          => /\ ~last.ret.panicked
             /\ last.ret.offset = last.index * last.data[1]
    /\ last.op = "handle_request"
          => /\ ~last.ret.panicked
             /\ last.ret.offset = (last.index * last.data[1]) + last.data[2]

\* C35: a session that waits in the send of peer_disconnected or
\* peer_connecting_failed because the channel is full finds the
\* orchestrator in recv, about to take the notifications: it is never left
\* there with an orchestrator that goes for the connected-peer lock, sits in
\* a send of its own, or does not read because the cap is not reached.
C35_NoDeadlock ==
    \A s \in Sessions :
        (pc[s] = "notify" /\ channel = ChannelCapacity
            /\ handler_pc # "returned")
           => (handler_pc = "check"
                 /\ all_current_peers >= max_peers_per_torrent)

\* C36: whenever a piece is Free no live session is between its select_piece
\* of that piece and its piece_downloaded or piece_aborted, and so no
\* piece_downloaded of a session is refused with PieceWasNotDownloading.
C36_FreeMeansUnheld ==
    /\ \A i \in Pieces :
         pieces_status[i] = "Free"
            => \A s \in Sessions : ~(Holding(s) /\ current_piece[s] = i)
    /\ ~(last.op = "piece_downloaded" /\ last.ret = "PieceWasNotDownloading")

\* C37: every index select_piece returns is a piece the remote bitfield it
\* was given has, in endgame as in the normal case.
C37_SelectedPieceIsHeldByPeer ==
    (last.op = "select_piece" /\ last.ret = "Some")
       => (InRange(last.bf, last.index) /\ has_piece(last.bf, last.index))

\* C38: Finished is absorbing.  No step of any session changes the status of
\* a Finished piece, finished_pieces never decreases, is_finished never
\* reverts to false, and a piece_downloaded that succeeds (the piece is
\* persisted) is for a piece that was not Finished before.
C38_FinishedIsAbsorbing ==
    [][/\ \A i \in Pieces :
            pieces_status[i] = "Finished" => pieces_status'[i] = "Finished"
       /\ finished_pieces' >= finished_pieces
       /\ is_finished => is_finished'
       /\ (last' # last /\ last'.op = "piece_downloaded" /\ last'.ret = "Ok")
             => pieces_status[last'.index] # "Finished"]_vars

\* every piece is Finished, and a session that held one of them in endgame
\* has just had its piece_downloaded refused
C38_Witness ==
    /\ is_finished
    /\ \A i \in Pieces : pieces_status[i] = "Finished"
    /\ last.op = "piece_downloaded"
    /\ last.ret = "PieceWasNotDownloading"
    /\ \E s \in Sessions : last.caller = s /\ pc[s] = "disconnect"

\* C39: the list an announce returns holds at most the wanted number of
\* peers, all distinct and all records of the swarm, and none of them was
\* last seen longer ago than peer_timeout at the time of the call.
C39_ActivePeersFresh ==
    tracker_ret.thread # NoThread
       => LET list == tracker_ret.active.peers
              sw == registry[tracker_ret.info_hash]
          IN  /\ Len(list) <= tracker_ret.wanted
              /\ \A i, j \in 1 .. Len(list) :
                   i # j => list[i].id # list[j].id
              /\ \A i \in 1 .. Len(list) :
                   /\ list[i].id \in DOMAIN sw.peers
                   /\ sw.peers[list[i].id] = list[i]
                   /\ (now - list[i].last_seen) <= PEER_HOURS_TIMEOUT

\* C40: in a swarm, after any sequence of announce and remove_inactive_peers,
\* seeders + leechers is the number of peer records, every record is counted
\* in exactly one of the two counters (the one its is_leecher names), and no
\* counter has gone below zero.
C40_CountersSumToRecords ==
    /\ seeders + leechers = Cardinality(DOMAIN swarm_peers)
    /\ leechers = Cardinality({k \in DOMAIN swarm_peers :
                                  is_leecher(swarm_peers[k])})
    /\ seeders = Cardinality({k \in DOMAIN swarm_peers :
                                 ~is_leecher(swarm_peers[k])})
    /\ seeders >= 0
    /\ leechers >= 0

\* remove_inactive_peers has run at the last hour of the clock and the swarm
\* holds one record of each counter, none of them from the first hour
C40_Witness ==
    /\ last.op = "remove_inactive_peers"
    /\ now = MaxTime
    /\ seeders = 1
    /\ leechers = 1
    /\ \A k \in DOMAIN swarm_peers : swarm_peers[k].last_seen > 0

============================================================================
